---- MODULE Spec2Model ----
(***************************************************************************)
(* Pootle editor views (pootle_store/views.py): the unit query / filter /  *)
(* sort pipeline (get_step_query, get_search_query), the get_units window  *)
(* around a unit id and the context lookup (_filter_ctx_units), over a     *)
(* relational store modelled as tables of rows.                            *)
(*                                                                         *)
(* A queryset is a set of unit ids plus its ordering clauses; evaluating   *)
(* it yields ANY row sequence that the ORDER BY admits: rows that tie on   *)
(* the sort key come in an order the database chooses per query.           *)
(***************************************************************************)
EXTENDS Integers, Sequences, FiniteSets, TLC

\* ------------------------------------------------------------- bounds
NumUnits == 3       \* units in the store tables of the editor model
StepUnits == 2      \* units in the tables of the filter/sort model
SearchUnits == 2    \* units in the tables of the search model
MaxTime == 2        \* timestamps are 1..MaxTime, 0 is NULL
MaxQty == 2         \* largest qty / gap of a context request

VARIABLES
    units,          \* pootle_store_unit rows: id -> row
    vfolders,       \* virtualfolder rows: id -> [priority, units]
    suggestions,    \* pootle_store_suggestion rows
    submissions,    \* pootle_statistics_submission rows
    qualitychecks,  \* pootle_store_qualitycheck rows
    request,        \* the request being answered
    units_qs,       \* the queryset handed to get_step_query
    step_queryset,  \* the queryset get_step_query returned
    response,       \* the response of the request
    client,         \* what the editor page keeps of its initial request
    frame,          \* worker -> the local variables and position of its view call
    signals,        \* the translation_submitted signals sent, in order
    now             \* the clock timezone.now() reads

vars == <<units, vfolders, suggestions, submissions, qualitychecks,
          request, units_qs, step_queryset, response, client,
          frame, signals, now>>
db == <<units, vfolders, suggestions, submissions, qualitychecks>>
calls == <<frame, signals, now>>

\* ------------------------------------------------------ python values
Max2(a, b) == IF a >= b THEN a ELSE b
Min2(a, b) == IF a <= b THEN a ELSE b
SetMax(S) == CHOOSE x \in S : \A y \in S : y <= x

Range(s) == {s[i] : i \in 1..Len(s)}

\* s[b:e] of a Python list, for 0 <= b and 0 <= e (0-based, e exclusive)
Slice(s, b, e) ==
    LET hi == Min2(e, Len(s))
    IN  IF b >= hi THEN <<>> ELSE [i \in 1..(hi - b) |-> s[b + i]]

\* mutant: the list is left as it is
NotReversed(s) == s

\* list.reverse()
Reverse(s) == [i \in 1..Len(s) |-> s[Len(s) + 1 - i]]

\* list.index(x) (0-based) of an element that occurs in s
IndexOf(s, x) == (CHOOSE i \in 1..Len(s) : s[i] = x /\ \A j \in 1..(i-1) : s[j] # x) - 1

\* every sequence that lists each element of S once
RECURSIVE Orderings(_)
Orderings(S) ==
    IF S = {} THEN {<<>>}
    ELSE UNION {{<<x>> \o p : p \in Orderings(S \ {x})} : x \in S}

\* decimal numerals of a query string, and int() of one
Numerals == <<"1", "2", "3", "4", "5", "6", "7", "8", "9">>
IsNumeral(s) == s = "0" \/ \E i \in 1..Len(Numerals) : Numerals[i] = s
NumeralValue(s) == IF s = "0" THEN 0 ELSE CHOOSE i \in 1..Len(Numerals) : Numerals[i] = s

\* pootle_misc.util.to_int: int(value), None (here: no value) on ValueError
to_int(value) == IF IsNumeral(value) THEN {NumeralValue(value)} ELSE {}

\* filter(None, map(to_int, filter(None, s.split(',')))): the tokens that are
\* non-empty, are integers and are not 0, in order
RECURSIVE ParseUids(_)
ParseUids(tokens) ==
    IF tokens = <<>> THEN <<>>
    ELSE LET t == Head(tokens)
             v == IF t = "" THEN {} ELSE to_int(t) \ {0}
         IN  (IF v = {} THEN <<>> ELSE <<CHOOSE n \in v : TRUE>>)
             \o ParseUids(Tail(tokens))

\* ------------------------------------------------------------ strings
\* text is a sequence of characters; str.lower() and str.split()
LowerChar(c) == IF c = "A" THEN "a" ELSE IF c = "B" THEN "b" ELSE c
Lower(s) == [i \in 1..Len(s) |-> LowerChar(s[i])]
IsSpace(c) == c = " "

\* SQL LIKE %word%: word occurs in text as a substring
Contains(text, word) ==
    \E k \in 0..(Len(text) - Len(word)) :
        \A i \in 1..Len(word) : text[k + i] = word[i]

\* field__icontains=word
IContains(text, word) == Contains(Lower(text), Lower(word))

\* str.split(): the maximal runs of non-whitespace characters
RECURSIVE SplitFrom(_, _, _)
SplitFrom(s, i, cur) ==
    IF i > Len(s) THEN (IF cur = <<>> THEN <<>> ELSE <<cur>>)
    ELSE IF IsSpace(s[i])
         THEN (IF cur = <<>> THEN <<>> ELSE <<cur>>) \o SplitFrom(s, i + 1, <<>>)
         ELSE SplitFrom(s, i + 1, Append(cur, s[i]))
Split(s) == SplitFrom(s, 1, <<>>)

\* ------------------------------------------------------------- tables
Users == {"u1", "u2"}
Stores == {1, 2}
\* Store.pootle_path, as its path segments
pootle_path(store) == IF store = 1 THEN <<"p", "a.po">> ELSE <<"p", "b.po">>
IsPrefix(p, s) == Len(p) <= Len(s) /\ \A i \in 1..Len(p) : p[i] = s[i]

States == {"UNTRANSLATED", "FUZZY", "TRANSLATED"}
Times == 1..MaxTime

\* a unit row with nothing submitted and no text but its source
BlankUnit(id, store) ==
    [id |-> id, store |-> store, index |-> id - 1, state |-> "UNTRANSLATED",
     submitted_on |-> 0, submitted_by |-> "",
     source_f |-> <<"a">>, target_f |-> <<>>,
     translator_comment |-> <<>>, developer_comment |-> <<>>,
     locations |-> <<>>]

\* the virtual folders of the model: folder 1 of priority 0.5, folder 2 of
\* priority 1.5 (in halves)
FolderPriority(v) == 2 * v - 1
NoFolders == [v \in {1, 2} |-> [priority |-> FolderPriority(v), units |-> {}]]

\* ---------------------------------------------------------- querysets
NoQuery == [built |-> FALSE]

\* Unit.objects.get_for_path(pootle_path, profile): the units of the stores
\* under pootle_path, in the model's default ordering
get_for_path(path, profile) ==
    [built |-> TRUE,
     ids |-> {u \in DOMAIN units : IsPrefix(path, pootle_path(units[u].store))},
     order_by |-> <<>>, extra_order_by |-> <<>>, sort_by_field |-> <<>>]

\* Unit.Meta.ordering = ['store', 'index']: stores by path, then the index
MetaBefore(a, b) ==
    \/ units[a].store < units[b].store
    \/ units[a].store = units[b].store /\ units[a].index < units[b].index

\* ORDER BY: is row a strictly before row b under the clause in effect
\* (extra_order_by wins over order_by, which wins over Meta.ordering)
RowBefore(qs, a, b) ==
    LET clause == IF qs.extra_order_by # <<>> THEN qs.extra_order_by[1]
                  ELSE IF qs.order_by # <<>> THEN qs.order_by[1]
                  ELSE "meta"
    IN  CASE clause = "meta" -> MetaBefore(a, b)
          [] clause = "index" -> units[a].index < units[b].index
          [] clause = "-index" -> units[a].index > units[b].index
          [] clause = "submitted_on" -> units[a].submitted_on < units[b].submitted_on
          [] clause = "-submitted_on" -> units[a].submitted_on > units[b].submitted_on
          [] clause = "sort_by_field" -> qs.sort_by_field[a] < qs.sort_by_field[b]
          [] clause = "-sort_by_field" -> qs.sort_by_field[a] > qs.sort_by_field[b]

\* the row sequences one evaluation of the queryset may return: every
\* listing of its rows that ORDER BY admits, ties in any order
Evaluate(qs) ==
    {p \in Orderings(qs.ids) :
        \A i \in 1..Len(p) : \A j \in (i+1)..Len(p) : ~RowBefore(qs, p[j], p[i])}

\* mutant: the units of uids are fetched from all units, filtered or not
UnitsIdIn(qs, uids) == [qs EXCEPT !.ids = DOMAIN units \cap Range(uids)]

\* queryset.filter(id__in=uids)
FilterIdIn(qs, uids) == [qs EXCEPT !.ids = @ \cap Range(uids)]

\* ------------------------------------------------------------- search
SearchFields == {"source", "target", "notes", "locations"}

\* mutant: the words are alternatives, a unit with any one of them is kept
FilterAnyWord(ids, words, column) ==
    IF words = <<>> THEN ids
    ELSE {u \in ids : \E i \in 1..Len(words) : IContains(units[u][column], words[i])}

\* for word in words: subresult = subresult.filter(<column>__icontains=word)
RECURSIVE FilterWords(_, _, _)
FilterWords(ids, words, column) ==
    IF words = <<>> THEN ids
    ELSE FilterWords({u \in ids : IContains(units[u][column], Head(words))},
                     Tail(words), column)

get_search_query(form, units_queryset) ==
    LET words == Split(form.search)
        all == units_queryset.ids
        source == IF "source" \in form.sfields
                  THEN FilterWords(all, words, "source_f") ELSE {}
        target == IF "target" \in form.sfields
                  THEN FilterWords(all, words, "target_f") ELSE {}
        notes == IF "notes" \in form.sfields
                 THEN FilterWords(all, words, "translator_comment")
                      \cup FilterWords(all, words, "developer_comment")
                 ELSE {}
        locations == IF "locations" \in form.sfields
                     THEN FilterWords(all, words, "locations") ELSE {}
    IN  [units_queryset EXCEPT !.ids = source \cup target \cup notes \cup locations]

get_search_exact_query(form, units_queryset) ==
    LET phrase == form.search
        all == units_queryset.ids
        In(column) == {u \in all : Contains(units[u][column], phrase)}
        source == IF "source" \in form.sfields THEN In("source_f") ELSE {}
        target == IF "target" \in form.sfields THEN In("target_f") ELSE {}
        notes == IF "notes" \in form.sfields
                 THEN In("translator_comment") \cup In("developer_comment")
                 ELSE {}
        locations == IF "locations" \in form.sfields THEN In("locations") ELSE {}
    IN  [units_queryset EXCEPT !.ids = source \cup target \cup notes \cup locations]

get_search_step_query(form, units_queryset) ==
    IF "exact" \in form.soptions
    THEN get_search_exact_query(form, units_queryset)
    ELSE get_search_query(form, units_queryset)

\* make_search_form(GET): search is required, sfields and soptions are
\* multiple choices that need not be given
search_form(GET) ==
    [search |-> GET.search,
     sfields |-> Range(GET.sfields),
     soptions |-> IF "soptions" \in DOMAIN GET THEN Range(GET.soptions) ELSE {}]
search_form_is_valid(GET) ==
    /\ GET.search # <<>>
    /\ Range(GET.sfields) \subseteq SearchFields
    /\ "soptions" \in DOMAIN GET => Range(GET.soptions) \subseteq {"exact"}

\* -------------------------------------------------------- step query
\* ALLOWED_SORTS[sort_on].get(sort_by_param, None); "" stands for None
ALLOWED_SORTS(sort_on, sort_by_param) ==
    CASE sort_on = "units" /\ sort_by_param = "priority" -> "priority"
      [] sort_on = "units" /\ sort_by_param = "oldest" -> "submitted_on"
      [] sort_on = "units" /\ sort_by_param = "newest" -> "-submitted_on"
      [] sort_on = "suggestions" /\ sort_by_param = "oldest" -> "suggestion__creation_time"
      [] sort_on = "suggestions" /\ sort_by_param = "newest" -> "-suggestion__creation_time"
      [] sort_on = "submissions" /\ sort_by_param = "oldest" -> "submission__creation_time"
      [] sort_on = "submissions" /\ sort_by_param = "newest" -> "-submission__creation_time"
      [] OTHER -> ""
SIMPLY_SORTED == {"units"}

EDIT_TYPES == {"NORMAL", "SYSTEM"}

\* the suggestion / submission rows one filter() call joins to unit u
PendingOf(u, user) ==
    {s \in suggestions : s.unit = u /\ s.state = "pending" /\ s.user = user}
EditsOf(u, user) ==
    {s \in submissions : s.unit = u /\ s.submitter = user /\ s.type \in EDIT_TYPES}

\* mutant: 'all' answered from Unit.objects instead of units_queryset
FilterAllObjects(ids) == DOMAIN units

\* match_queryset = units_queryset
FilterAll(ids) == ids

\* mutant: a filter that is not known keeps every unit
MatchFilterElseAll(unit_filter, GET, user, ids) ==
    CASE unit_filter = "all" -> FilterAll(ids)
      [] unit_filter = "translated" -> {u \in ids : units[u].state = "TRANSLATED"}
      [] unit_filter = "untranslated" -> {u \in ids : units[u].state = "UNTRANSLATED"}
      [] unit_filter = "fuzzy" -> {u \in ids : units[u].state = "FUZZY"}
      [] unit_filter = "incomplete" ->
            {u \in ids : units[u].state = "UNTRANSLATED" \/ units[u].state = "FUZZY"}
      [] unit_filter = "suggestions" ->
            {u \in ids : \E s \in suggestions : s.unit = u /\ s.state = "pending"}
      [] unit_filter \in {"my-suggestions", "user-suggestions"} ->
            {u \in ids : PendingOf(u, user) # {}}
      [] unit_filter = "user-suggestions-accepted" ->
            {u \in ids : \E s \in suggestions :
                s.unit = u /\ s.state = "accepted" /\ s.user = user}
      [] unit_filter = "user-suggestions-rejected" ->
            {u \in ids : \E s \in suggestions :
                s.unit = u /\ s.state = "rejected" /\ s.user = user}
      [] unit_filter \in {"my-submissions", "user-submissions"} ->
            {u \in ids : EditsOf(u, user) # {}}
      [] unit_filter \in {"my-submissions-overwritten", "user-submissions-overwritten"} ->
            {u \in ids : EditsOf(u, user) # {} /\ units[u].submitted_by # user}
      [] unit_filter = "checks" /\ "checks" \in DOMAIN GET ->
            {u \in ids : \E q \in qualitychecks :
                q.unit = u /\ ~q.false_positive /\ q.name \in Range(GET.checks)}
      [] OTHER -> ids

\* lines 208-259: the units of ids that the filter keeps
MatchFilter(unit_filter, GET, user, ids) ==
    CASE unit_filter = "all" -> FilterAll(ids)
      [] unit_filter = "translated" -> {u \in ids : units[u].state = "TRANSLATED"}
      [] unit_filter = "untranslated" -> {u \in ids : units[u].state = "UNTRANSLATED"}
      [] unit_filter = "fuzzy" -> {u \in ids : units[u].state = "FUZZY"}
      [] unit_filter = "incomplete" ->
            {u \in ids : units[u].state = "UNTRANSLATED" \/ units[u].state = "FUZZY"}
      [] unit_filter = "suggestions" ->
            {u \in ids : \E s \in suggestions : s.unit = u /\ s.state = "pending"}
      [] unit_filter \in {"my-suggestions", "user-suggestions"} ->
            {u \in ids : PendingOf(u, user) # {}}
      [] unit_filter = "user-suggestions-accepted" ->
            {u \in ids : \E s \in suggestions :
                s.unit = u /\ s.state = "accepted" /\ s.user = user}
      [] unit_filter = "user-suggestions-rejected" ->
            {u \in ids : \E s \in suggestions :
                s.unit = u /\ s.state = "rejected" /\ s.user = user}
      [] unit_filter \in {"my-submissions", "user-submissions"} ->
            {u \in ids : EditsOf(u, user) # {}}
      [] unit_filter \in {"my-submissions-overwritten", "user-submissions-overwritten"} ->
            {u \in ids : EditsOf(u, user) # {} /\ units[u].submitted_by # user}
      [] unit_filter = "checks" /\ "checks" \in DOMAIN GET ->
            {u \in ids : \E q \in qualitychecks :
                q.unit = u /\ ~q.false_positive /\ q.name \in Range(GET.checks)}
      [] OTHER -> {}

SortOn(unit_filter) ==
    IF unit_filter \in {"my-suggestions", "user-suggestions"} THEN "suggestions"
    ELSE IF unit_filter \in {"my-submissions", "user-submissions"} THEN "submissions"
    ELSE "units"

\* pootle.core.dateparse.parse_datetime: no value when the text is no date
parse_datetime(text) == {t \in to_int(text) : t \in Times}
\* pootle_misc.util.get_date_interval: month m spans the single time m
get_date_interval(month) == [start |-> NumeralValue(month), end |-> NumeralValue(month)]

\* VirtualFolder.priority is a float: the model counts priorities in halves,
\* so that a folder can rank below the priority 1 of the SQL's COALESCE
One == 2

\* mutant: MAX() without the COALESCE, NULL ranking lowest
PriorityNoCoalesce(u) ==
    LET ps == {vfolders[v].priority : v \in {w \in DOMAIN vfolders : u \in vfolders[w].units}}
    IN  IF ps = {} THEN 0 ELSE SetMax(ps)

\* COALESCE(MAX(virtualfolder.priority), 1) over the folders that hold unit u
Priority(u) ==
    LET ps == {vfolders[v].priority : v \in {w \in DOMAIN vfolders : u \in vfolders[w].units}}
    IN  IF ps = {} THEN One ELSE SetMax(ps)

\* mutant: the units ordered by the earliest of their matching rows
SortQueryByMin(qs, unit_filter, user, sort_on, sort_by) ==
    IF sort_by = "" THEN qs
    ELSE IF sort_on \in SIMPLY_SORTED
    THEN IF sort_by = "priority"
         THEN [qs EXCEPT !.sort_by_field = [u \in qs.ids |-> Priority(u)],
                         !.extra_order_by = <<"-sort_by_field">>]
         ELSE [qs EXCEPT !.order_by = <<sort_by>>]
    ELSE LET times(u) == IF sort_on = "suggestions"
                         THEN {s.creation_time : s \in PendingOf(u, user)}
                         ELSE {s.creation_time : s \in EditsOf(u, user)}
         IN  [qs EXCEPT !.sort_by_field =
                            [u \in qs.ids |-> CHOOSE t \in times(u) :
                                                \A x \in times(u) : t <= x],
                        !.order_by = IF sort_by = "-suggestion__creation_time"
                                        \/ sort_by = "-submission__creation_time"
                                     THEN <<"-sort_by_field">>
                                     ELSE <<"sort_by_field">>]

\* lines 275-311: the ordering clauses for sort_by
SortQuery(qs, unit_filter, user, sort_on, sort_by) ==
    IF sort_by = "" THEN qs
    ELSE IF sort_on \in SIMPLY_SORTED
    THEN IF sort_by = "priority"
         THEN [qs EXCEPT !.sort_by_field = [u \in qs.ids |-> Priority(u)],
                         !.extra_order_by = <<"-sort_by_field">>]
         ELSE [qs EXCEPT !.order_by = <<sort_by>>]
    ELSE LET times(u) == IF sort_on = "suggestions"
                         THEN {s.creation_time : s \in PendingOf(u, user)}
                         ELSE {s.creation_time : s \in EditsOf(u, user)}
         IN  [qs EXCEPT !.sort_by_field = [u \in qs.ids |-> SetMax(times(u))],
                        !.order_by = IF sort_by = "-suggestion__creation_time"
                                        \/ sort_by = "-submission__creation_time"
                                     THEN <<"-sort_by_field">>
                                     ELSE <<"sort_by_field">>]

\* lines 189-313: the filter step, for a non-empty filter
FilterStep(GET, profile, units_queryset) ==
    LET unit_filter == GET.filter
        user == IF "user" \in DOMAIN GET /\ GET.user \in Users THEN GET.user ELSE profile
        matched == MatchFilter(unit_filter, GET, user, units_queryset.ids)
        since == IF "modified-since" \in DOMAIN GET
                 THEN parse_datetime(GET["modified-since"]) ELSE {}
        modified == IF since = {} THEN matched
                    ELSE {u \in matched : \A t \in since : units[u].submitted_on > t}
        inmonth == IF "month" \in DOMAIN GET
                   THEN {u \in modified :
                            /\ units[u].submitted_on >= get_date_interval(GET.month).start
                            /\ units[u].submitted_on <= get_date_interval(GET.month).end}
                   ELSE modified
        sort_on == SortOn(unit_filter)
        sort_by == ALLOWED_SORTS(sort_on,
                       IF "sort" \in DOMAIN GET THEN GET.sort ELSE "")
    IN  SortQuery([units_queryset EXCEPT !.ids = inmonth],
                  unit_filter, user, sort_on, sort_by)

\* mutant: a valid search is answered from the units given, not from the
\* units the filter kept
get_step_query_search_given(GET, profile, units_queryset) ==
    LET filtered == IF "filter" \in DOMAIN GET /\ GET.filter # ""
                    THEN FilterStep(GET, profile, units_queryset)
                    ELSE units_queryset
    IN  IF "search" \in DOMAIN GET /\ "sfields" \in DOMAIN GET
           /\ search_form_is_valid(GET)
        THEN get_search_step_query(search_form(GET), units_queryset)
        ELSE filtered

get_step_query(GET, profile, units_queryset) ==
    LET filtered == IF "filter" \in DOMAIN GET /\ GET.filter # ""
                    THEN FilterStep(GET, profile, units_queryset)
                    ELSE units_queryset
    IN  IF "search" \in DOMAIN GET /\ "sfields" \in DOMAIN GET
           /\ search_form_is_valid(GET)
        THEN get_search_step_query(search_form(GET), filtered)
        ELSE filtered

\* ---------------------------------------------------------- get_units
_prepare_unit(u) ==
    [id |-> u, isfuzzy |-> units[u].state = "FUZZY",
     source |-> units[u].source_f, target |-> units[u].target_f]

_build_units_list(rows) == [i \in 1..Len(rows) |-> _prepare_unit(rows[i])]

\* {path: {'meta': ..., 'units': [...]}}
_path_units_with_meta(path, rows) ==
    [path |-> path,
     meta |-> IF rows = <<>> THEN "None" ELSE "project",
     units |-> [i \in 1..Len(rows) |-> _prepare_unit(rows[i])]]

\* mutant: a group per row
group_each(rows) ==
    [i \in 1..Len(rows) |->
        [key |-> pootle_path(units[rows[i]].store), group |-> <<rows[i]>>]]

\* itertools.groupby(units, lambda x: x.store.pootle_path): one group per
\* maximal run of consecutive rows with the same key
RECURSIVE groupby(_)
groupby(rows) ==
    IF rows = <<>> THEN <<>>
    ELSE LET key == pootle_path(units[Head(rows)].store)
             n == CHOOSE k \in 1..Len(rows) :
                    /\ \A i \in 1..k : pootle_path(units[rows[i]].store) = key
                    /\ k < Len(rows) => pootle_path(units[rows[k+1]].store) # key
         IN  <<[key |-> key, group |-> SubSeq(rows, 1, n)]>>
             \o groupby(SubSeq(rows, n + 1, Len(rows)))

unit_groups(rows) ==
    LET by_path == groupby(rows)
    IN  [i \in 1..Len(by_path) |->
            _path_units_with_meta(by_path[i].key, by_path[i].group)]

\* request.GET.get('count', limit): the GET value is text, the limit a number
chunk_size(GET, limit) ==
    IF "count" \in DOMAIN GET THEN [type |-> "unicode", value |-> GET.count]
    ELSE [type |-> "int", value |-> limit]

\* mutant: begin is not clamped at 0, and a negative begin counts from the
\* end of the list
WindowNoClamp(uid_list, index, chunk) ==
    LET begin == index - chunk
        end == Min2(index + chunk + 1, Len(uid_list))
    IN  Slice(uid_list, IF begin < 0 THEN Max2(Len(uid_list) + begin, 0) ELSE begin, end)

\* lines 477-480: uid_list[begin:end] around index
Window(uid_list, index, chunk) ==
    LET begin == Max2(index - chunk, 0)
        end == Min2(index + chunk + 1, Len(uid_list))
    IN  Slice(uid_list, begin, end)

Http400 == [status |-> 400, msg |-> "Arguments missing."]
Http404 == [status |-> 404]
\* an exception no handler catches
ServerError(exception) == [status |-> 500, exception |-> exception]

\* mutant: 'uIds' carries the ids of the window
RespondWindowIds(step, uid_list, uids) ==
    {[status |-> 200, unitGroups |-> unit_groups(rows)]
        @@ (IF uid_list # <<>> THEN ("uIds" :> uids) ELSE <<>>) :
     rows \in IF uids # <<>> THEN Evaluate(FilterIdIn(step, uids)) ELSE {<<>>}}

\* lines 487-500: the units of uids and the response
Respond(step, uid_list, uids) ==
    {[status |-> 200, unitGroups |-> unit_groups(rows)]
        @@ (IF uid_list # <<>> THEN ("uIds" :> uid_list) ELSE <<>>) :
     rows \in IF uids # <<>> THEN Evaluate(FilterIdIn(step, uids)) ELSE {<<>>}}

\* mutant: a uid that is not in uid_list is ignored and the first page answers
InitialRequestFirstPage(step, uid_list, uids, chunk) ==
    IF Len(uids) = 1 /\ uids[1] \in Range(uid_list)
    THEN IF chunk.type # "int" THEN {ServerError("TypeError")}
         ELSE Respond(step, uid_list,
                      Window(uid_list, IndexOf(uid_list, uids[1]), chunk.value))
    ELSE IF chunk.type # "int" THEN {ServerError("TypeError")}
         ELSE Respond(step, uid_list, Slice(uid_list, 0, 2 * chunk.value))

\* lines 449-485, for one evaluation uid_list of the step queryset
InitialRequest(step, uid_list, uids, chunk) ==
    IF Len(uids) = 1
    THEN IF uids[1] \notin Range(uid_list) THEN {Http404}
         ELSE IF chunk.type # "int" THEN {ServerError("TypeError")}
         ELSE Respond(step, uid_list,
                      Window(uid_list, IndexOf(uid_list, uids[1]), chunk.value))
    ELSE IF chunk.type # "int" THEN {ServerError("TypeError")}
         ELSE Respond(step, uid_list, Slice(uid_list, 0, 2 * chunk.value))

\* mutant: the path defaults to the root of the project
path_param_or_root(GET) == IF "path" \in DOMAIN GET THEN {GET.path} ELSE {<<"p">>}

\* request.GET.get('path', None): no value when the parameter is not given
path_param(GET) == IF "path" \in DOMAIN GET THEN {GET.path} ELSE {}

\* the outcomes of get_units(request): the querysets built and the response
get_units(req) ==
    IF path_param(req.GET) = {}
    THEN {[units_qs |-> NoQuery, step_queryset |-> NoQuery, response |-> Http400]}
    ELSE LET GET == req.GET
             qs == get_for_path(CHOOSE p \in path_param(GET) : TRUE, req.profile)
             step == get_step_query(GET, req.profile, qs)
             is_initial_request == "initial" \in DOMAIN GET /\ GET.initial # ""
             chunk == chunk_size(GET, req.limit)
             uids == ParseUids(IF "uids" \in DOMAIN GET THEN GET.uids ELSE <<>>)
             responses ==
                IF is_initial_request
                THEN UNION {InitialRequest(step, uid_list, uids, chunk) :
                                uid_list \in Evaluate(step)}
                ELSE Respond(step, <<>>, uids)
         IN  {[units_qs |-> qs, step_queryset |-> step, response |-> r] :
                r \in responses}

\* ------------------------------------------------------------ context
\* Store.units: the units of the store by index
store_units(store) ==
    [built |-> TRUE, ids |-> {u \in DOMAIN units : units[u].store = store},
     order_by |-> <<"index">>, extra_order_by |-> <<>>, sort_by_field |-> <<>>]

\* the possible results of _filter_ctx_units(units_qs, unit, how_many, gap)
_filter_ctx_units(qs, unit, how_many, gap) ==
    LET lower == [qs EXCEPT !.ids = {u \in @ : units[u].store = units[unit].store
                                               /\ units[u].index < units[unit].index},
                            !.order_by = <<"-index">>]
        higher == [qs EXCEPT !.ids = {u \in @ : units[u].store = units[unit].store
                                                /\ units[u].index > units[unit].index}]
        befores == IF how_many # 0 /\ units[unit].index - gap > 0
                   THEN {Reverse(_build_units_list(Slice(rows, gap, how_many + gap))) :
                            rows \in Evaluate(lower)}
                   ELSE {<<>>}
        afters == IF how_many # 0
                  THEN {_build_units_list(Slice(rows, gap, how_many + gap)) :
                            rows \in Evaluate(higher)}
                  ELSE {<<>>}
    IN  {[before |-> b, after |-> a] : b \in befores, a \in afters}

\* int(request.GET.get(name, default))
IntParam(GET, name, default) ==
    IF name \in DOMAIN GET THEN NumeralValue(GET[name]) ELSE default

get_more_context(req) ==
    LET gap == IntParam(req.GET, "gap", 0)
        qty == IntParam(req.GET, "qty", 1)
    IN  {[status |-> 200, ctx |-> c] :
            c \in _filter_ctx_units(store_units(units[req.uid].store), req.uid, qty, gap)}

\* ----------------------------------------------------------- requests
\* the ways of giving, or not giving, GET parameter key a value of values
Opt(key, values) == {<<>>} \cup {key :> v : v \in values}
Given(key, values) == {key :> v : v \in values}

NoRequest == [view |-> "none"]
NoResponse == [status |-> 0]
NoClient == [request |-> NoRequest, uIds |-> <<>>]

\* the comma-separated uids of the editor model: no uid, one token, or two
UidTokens(n) == {Numerals[i] : i \in 1..(n + 1)} \cup {"x"}
UidLists(n) ==
    {<<t>> : t \in UidTokens(n)}
    \cup {<<"x", Numerals[1]>>, <<"0", Numerals[2]>>, <<Numerals[1], Numerals[2]>>}

EditorRequests ==
    {[view |-> "get_units", profile |-> "u1", limit |-> limit,
      GET |-> path @@ filter @@ sort @@ initial @@ count @@ uids] :
        limit \in {1, 2},
        path \in Opt("path", {<<"p">>, <<"p", "a.po">>}),
        filter \in Opt("filter", {"all", "fuzzy"}),
        sort \in Opt("sort", {"priority"}),
        initial \in Opt("initial", {"", "1"}),
        count \in Opt("count", {"1"}),
        uids \in Opt("uids", UidLists(NumUnits))}

ContextRequests ==
    {[view |-> "get_more_context", uid |-> uid, GET |-> gap @@ qty] :
        uid \in DOMAIN units,
        gap \in Opt("gap", {Numerals[i] : i \in 1..MaxQty} \cup {"0"}),
        qty \in Opt("qty", {Numerals[i] : i \in 1..MaxQty} \cup {"0"})}

\* ------------------------------------------------------------ actions
\* The views keep nothing between two requests but the tables, and these views
\* do not write them: a behaviour follows one request from the tables it
\* starts with, and the editor page's next fetch after its initial request.
Idle == request = NoRequest

\* one get_units request
GetUnits ==
    /\ Idle
    /\ \E req \in EditorRequests : \E out \in get_units(req) :
        /\ request' = req
        /\ units_qs' = out.units_qs
        /\ step_queryset' = out.step_queryset
        /\ response' = out.response
        /\ client' = IF "uIds" \in DOMAIN out.response
                     THEN [request |-> req, uIds |-> out.response.uIds]
                     ELSE client
        /\ UNCHANGED <<db, calls>>

\* the editor page asks for more units of its initial request: the same
\* parameters without 'initial', and a run of its uIds as 'uids'
FetchMore ==
    /\ request = client.request
    /\ client.uIds # <<>>
    /\ \E b \in 0..(Len(client.uIds) - 1) : \E n \in 1..2 :
         LET old == client.request.GET
             ids == Slice(client.uIds, b, b + n)
             req == [client.request EXCEPT !.GET =
                        [k \in DOMAIN old \ {"initial", "uids"} |-> old[k]]
                        @@ ("uids" :> [i \in 1..Len(ids) |-> Numerals[ids[i]]])]
         IN  \E out \in get_units(req) :
                /\ request' = req
                /\ units_qs' = out.units_qs
                /\ step_queryset' = out.step_queryset
                /\ response' = out.response
                /\ UNCHANGED <<db, client, calls>>

\* one get_more_context request
GetMoreContext ==
    /\ Idle
    /\ \E req \in ContextRequests : \E out \in get_more_context(req) :
        /\ request' = req
        /\ response' = out
        /\ units_qs' = NoQuery
        /\ step_queryset' = NoQuery
        /\ UNCHANGED <<db, client, calls>>

\* -------------------------------------------------------- editor model
UnitIds == 1..NumUnits

\* no view call in progress, no signal sent
NoFrames == <<>>
InitCalls ==
    /\ frame = NoFrames
    /\ signals = <<>>
    /\ now = 1

InitAnswers ==
    /\ request = NoRequest
    /\ units_qs = NoQuery
    /\ step_queryset = NoQuery
    /\ response = NoResponse
    /\ client = NoClient
    /\ InitCalls

\* stores of any layout, one virtual folder of priority 1.5 over any units
Init ==
    /\ units \in {[u \in UnitIds |-> BlankUnit(u, layout[u])] :
                    layout \in [UnitIds -> Stores]}
    /\ vfolders \in {[v \in {2} |-> [priority |-> FolderPriority(v), units |-> held]] :
                    held \in SUBSET UnitIds}
    /\ suggestions = {}
    /\ submissions = {}
    /\ qualitychecks = {}
    /\ InitAnswers

Next == GetUnits \/ FetchMore \/ GetMoreContext

Spec == Init /\ [][Next]_vars

\* --------------------------------------------------- filter/sort model
\* get_step_query over tables that vary in what the filter asked reads:
\* unit columns and folders, or suggestion rows, or submission rows, or
\* quality checks.
StepIds == 1..StepUnits
StepUnit(u) == BlankUnit(u, ((u - 1) % 2) + 1)

\* the subsets of S of at most two rows
UpToTwo(S) == {{}} \cup {{a, b} : a \in S, b \in S}

SuggestionRows ==
    {[unit |-> u, state |-> st, user |-> who, creation_time |-> t] :
        u \in StepIds, st \in {"pending", "accepted", "rejected"},
        who \in Users, t \in Times}
SubmissionRows ==
    {[unit |-> u, submitter |-> who, type |-> ty, creation_time |-> t] :
        u \in StepIds, who \in Users, ty \in {"NORMAL", "SYSTEM", "SUGG_ADD"},
        t \in Times}
CheckRows ==
    {[unit |-> u, name |-> n, false_positive |-> fp] :
        u \in StepIds, n \in {"c1", "c2"}, fp \in BOOLEAN}


InitStep ==
    /\ InitAnswers
    /\ \/ \* unit states and folders
          /\ units \in {[u \in StepIds |-> [StepUnit(u) EXCEPT !.state = st[u]]] :
                            st \in [StepIds -> States]}
          /\ vfolders \in {[v \in {1, 2} |-> [priority |-> FolderPriority(v), units |-> held[v]]] :
                            held \in [{1, 2} -> SUBSET StepIds]}
          /\ suggestions = {} /\ submissions = {} /\ qualitychecks = {}
       \/ \* submission dates
          /\ units \in {[u \in StepIds |->
                            [StepUnit(u) EXCEPT !.submitted_on = on[u],
                                !.submitted_by = IF on[u] = 0 THEN "" ELSE "u1"]] :
                            on \in [StepIds -> 0..MaxTime]}
          /\ vfolders = NoFolders
          /\ suggestions = {} /\ submissions = {} /\ qualitychecks = {}
       \/ \* suggestions
          /\ units = [u \in StepIds |-> StepUnit(u)]
          /\ vfolders = NoFolders
          /\ suggestions \in UpToTwo(SuggestionRows) \ {{}}
          /\ submissions = {} /\ qualitychecks = {}
       \/ \* submissions, of units last submitted by u1
          /\ units = [u \in StepIds |->
                        [StepUnit(u) EXCEPT !.submitted_on = 1, !.submitted_by = "u1"]]
          /\ vfolders = NoFolders
          /\ submissions \in UpToTwo(SubmissionRows) \ {{}}
          /\ suggestions = {} /\ qualitychecks = {}
       \/ \* quality checks
          /\ units = [u \in StepIds |-> StepUnit(u)]
          /\ vfolders = NoFolders
          /\ qualitychecks \in UpToTwo(CheckRows) \ {{}}
          /\ suggestions = {} /\ submissions = {}

Sorts == Opt("sort", {"priority", "oldest", "newest"})
Paths == Given("path", {<<"p">>, <<"p", "a.po">>, <<"p", "b.po">>})
UserNames == Opt("user", {"u2", "nobody"})

FilterNames ==
    {"all", "translated", "untranslated", "fuzzy", "incomplete", "suggestions",
     "my-suggestions", "user-suggestions", "user-suggestions-accepted",
     "user-suggestions-rejected", "my-submissions", "user-submissions",
     "my-submissions-overwritten", "user-submissions-overwritten", "checks",
     "no-such-filter"}

Searches ==
    {("search" :> <<"a">>) @@ ("sfields" :> f) : f \in {<<"source">>, <<"target">>,
                                                        <<"source", "no-such-field">>}}

\* GET of the requests asked of tables without suggestion, submission and
\* check rows
UnitGETs ==
    {path @@ filter @@ sort @@ since @@ month :
        path \in Paths,
        filter \in Opt("filter", {"", "all", "translated", "untranslated", "fuzzy",
                                   "incomplete", "no-such-filter"}),
        sort \in Sorts,
        since \in Opt("modified-since", {Numerals[1], "x"}),
        month \in Opt("month", {Numerals[2]})}
    \cup {path @@ filter : path \in Paths, filter \in Given("filter", FilterNames)}
    \cup {path @@ filter @@ search :
            path \in Paths, filter \in Opt("filter", {"all", "translated"}),
            search \in Searches}
SuggestionGETs ==
    {path @@ filter @@ user @@ sort :
        path \in Paths,
        filter \in Given("filter", {"suggestions", "my-suggestions", "user-suggestions",
                                     "user-suggestions-accepted",
                                     "user-suggestions-rejected"}),
        user \in UserNames, sort \in Sorts}
SubmissionGETs ==
    {path @@ filter @@ user @@ sort :
        path \in Paths,
        filter \in Given("filter", {"my-submissions", "user-submissions",
                                     "my-submissions-overwritten",
                                     "user-submissions-overwritten"}),
        user \in UserNames, sort \in Sorts}
CheckGETs ==
    {path @@ filter @@ checks @@ sort :
        path \in Paths, filter \in Given("filter", {"checks"}),
        checks \in Opt("checks", {<<"">>, <<"c1">>, <<"c1", "c2">>}),
        sort \in Opt("sort", {"priority"})}

StepGETs ==
    IF suggestions # {} THEN SuggestionGETs
    ELSE IF submissions # {} THEN SubmissionGETs
    ELSE IF qualitychecks # {} THEN CheckGETs
    ELSE UnitGETs

\* one call of get_step_query(request, units_qs), units_qs being the units
\* of a path
StepQuery ==
    /\ Idle
    /\ \E GET \in StepGETs :
         LET req == [view |-> "get_step_query", profile |-> "u1", GET |-> GET]
             qs == get_for_path(GET.path, req.profile)
         IN  /\ request' = req
             /\ units_qs' = qs
             /\ step_queryset' = get_step_query(GET, req.profile, qs)
             /\ UNCHANGED <<db, response, client, calls>>

SpecStep == InitStep /\ [][StepQuery]_vars

\* -------------------------------------------------------- search model
\* get_search_step_query over units of which at most two text columns,
\* over the whole table, hold text
SearchIds == 1..SearchUnits
TextColumns == {"source_f", "target_f", "translator_comment",
                "developer_comment", "locations"}
Texts == {<<"a">>, <<"B">>, <<"b", "A">>}
SearchStrings == {<<"a">>, <<"A">>, <<"a", "b">>, <<"a", " ", "b">>, <<" ">>,
                  <<" ", "B">>}

Cells == SearchIds \X TextColumns

InitSearch ==
    /\ InitAnswers
    /\ units \in {[u \in SearchIds |->
                    [c \in TextColumns |->
                        IF <<u, c>> = c1 THEN t1
                        ELSE IF <<u, c>> = c2 THEN t2 ELSE <<>>] @@ StepUnit(u)] :
                    c1 \in Cells, c2 \in Cells,
                    t1 \in Texts \cup {<<>>}, t2 \in Texts \cup {<<>>}}
    /\ vfolders = NoFolders
    /\ suggestions = {} /\ submissions = {} /\ qualitychecks = {}

SearchForms ==
    {[search |-> text, sfields |-> fields, soptions |-> options] :
        text \in SearchStrings, fields \in SUBSET SearchFields,
        options \in SUBSET {"exact"}}

\* one call of get_search_step_query(form, units_queryset) with a valid form
Search ==
    /\ Idle
    /\ \E form \in SearchForms : \E path \in {<<"p">>, <<"p", "a.po">>, <<"p", "b.po">>} :
         LET qs == get_for_path(path, "u1")
         IN  /\ request' = [view |-> "get_search_step_query", form |-> form]
             /\ units_qs' = qs
             /\ step_queryset' = get_search_step_query(form, qs)
             /\ UNCHANGED <<db, response, client, calls>>

SpecSearch == InitSearch /\ [][Search]_vars

\* -------------------------------------------------------- submit model
\* submit and timeline over one unit, served by two web workers. A call of
\* submit runs statement by statement: between two of its statements the
\* other worker's call may run and the clock may advance.
MaxWorkers == 2     \* web workers serving requests at the same time
Workers == 1..MaxWorkers

\* request.profile of the request worker w serves
profile_of(w) == IF w = 1 THEN "u1" ELSE "u2"

\* a unit row of the editing models: BlankUnit plus the review, comment and
\* creation columns
EditUnit(id, store, created) ==
    [reviewed_by |-> "", reviewed_on |-> 0,
     commented_by |-> "", commented_on |-> 0,
     creation_time |-> created] @@ BlankUnit(id, store)

\* unit_form_factory(language, snplurals, request): the form takes the
\* posted target and state into its instance and lists the fields they
\* change as (field, old_value, new_value)
unit_form(POST, unit) ==
    [is_valid |-> POST.valid,
     updated_fields |->
        (IF POST.target_f # unit.target_f
         THEN <<[field |-> "target", old_value |-> unit.target_f,
                 new_value |-> POST.target_f]>>
         ELSE <<>>)
        \o (IF POST.state # unit.state
            THEN <<[field |-> "state", old_value |-> unit.state,
                    new_value |-> POST.state]>>
            ELSE <<>>),
     instance |-> [unit EXCEPT !.target_f = POST.target_f, !.state = POST.state]]

NoCall == [pc |-> "idle"]

\* mutant: a valid form is saved whether or not it has updated fields
submit_begin_always_saves(w, POST, unit, current_time) ==
    LET form == unit_form(POST, unit)
        call == [view |-> "submit", profile |-> profile_of(w), POST |-> POST,
                 unit |-> unit, current_time |-> current_time, form |-> form,
                 saved |-> {}, trace |-> <<>>]
    IN  IF ~form.is_valid
        THEN call @@ [pc |-> "HttpResponse",
                      response |-> [status |-> 400, json |-> {"msg"}]]
        ELSE IF form.updated_fields = <<>>
        THEN call @@ [pc |-> "attributes", response |-> NoResponse]
        ELSE call @@ [pc |-> "sub.save", response |-> NoResponse]

\* lines 815-831 and 883-892: the call up to its first statement that
\* writes, or to its response when there is nothing to write
submit_begin(w, POST, unit, current_time) ==
    LET form == unit_form(POST, unit)
        call == [view |-> "submit", profile |-> profile_of(w), POST |-> POST,
                 unit |-> unit, current_time |-> current_time, form |-> form,
                 saved |-> {}, trace |-> <<>>]
    IN  IF ~form.is_valid
        THEN call @@ [pc |-> "HttpResponse",
                      response |-> [status |-> 400, json |-> {"msg"}]]
        ELSE IF form.updated_fields = <<>>
        THEN call @@ [pc |-> "HttpResponse",
                      response |-> [status |-> 200, json |-> {"user_score"}]]
        ELSE call @@ [pc |-> "sub.save", response |-> NoResponse]

\* mutant: creation_time read from the clock when the record is saved
SubmissionSavedNow(call, id, item, clock) ==
    [id |-> id, creation_time |-> clock, submitter |-> call.profile,
     unit |-> call.unit.id, store |-> call.unit.store, field |-> item.field,
     type |-> "NORMAL", old_value |-> item.old_value, new_value |-> item.new_value]

\* lines 834-846: Submission(creation_time=current_time, ...)
Submission(call, id, item, clock) ==
    [id |-> id, creation_time |-> call.current_time, submitter |-> call.profile,
     unit |-> call.unit.id, store |-> call.unit.store, field |-> item.field,
     type |-> "NORMAL", old_value |-> item.old_value, new_value |-> item.new_value]

\* the id the table gives the next row saved
next_id(table) == Cardinality(table) + 1

\* mutant: the signal sent before the unit is saved
submit_signal_first(pc, more) ==
    CASE pc = "sub.save" -> IF more THEN "sub.save" ELSE "attributes"
      [] pc = "attributes" -> "translation_submitted.send"
      [] pc = "translation_submitted.send" -> "form.save"
      [] pc = "form.save" -> "HttpResponse"

\* lines 833-866: the statement that follows pc; more says that the loop
\* over form.updated_fields has fields left
submit_then(pc, more) ==
    CASE pc = "sub.save" -> IF more THEN "sub.save" ELSE "attributes"
      [] pc = "attributes" -> "form.save"
      [] pc = "form.save" -> "translation_submitted.send"
      [] pc = "translation_submitted.send" -> "HttpResponse"

\* lines 852-859: the instance after the attributes are set
submit_attributes(call) ==
    IF \E i \in 1..Len(call.form.updated_fields) :
            call.form.updated_fields[i].field = "target"
    THEN [call.form.instance EXCEPT !.submitted_by = call.profile,
                                    !.submitted_on = call.current_time,
                                    !.reviewed_by = "", !.reviewed_on = 0]
    ELSE call.form.instance

\* lines 535-541: the submissions of the unit that the timeline shows, by id
timeline_rows(unit) ==
    LET shown == {s \in submissions :
                    /\ s.unit = unit.id
                    /\ s.field \in {"target", "state", "comment", "none"}
                    /\ ~(s.field = "comment" /\ s.creation_time = unit.commented_on)}
    IN  CHOOSE rows \in Orderings(shown) :
            \A i \in 1..Len(rows) : \A j \in 1..Len(rows) :
                i < j => rows[i].id < rows[j].id

\* lines 551-593: one entry group per run of consecutive rows of the same
\* submitter and creation_time
RECURSIVE entry_groups(_)
entry_groups(rows) ==
    IF rows = <<>> THEN <<>>
    ELSE LET key == <<Head(rows).submitter, Head(rows).creation_time>>
             same(r) == <<r.submitter, r.creation_time>> = key
             n == CHOOSE k \in 1..Len(rows) :
                    /\ \A i \in 1..k : same(rows[i])
                    /\ k < Len(rows) => ~same(rows[k + 1])
         IN  <<[datetime |-> key[2], submitter |-> key[1], created |-> FALSE,
                entries |-> [i \in 1..n |-> rows[i].field]]>>
             \o entry_groups(SubSeq(rows, n + 1, Len(rows)))

\* lines 595-606: the first group is the creation of the unit, or a group
\* for it is put in front (datetime 0: no datetime)
mark_created(groups, unit) ==
    IF Len(groups) > 0 /\ groups[1].datetime = unit.creation_time
    THEN [groups EXCEPT ![1].created = TRUE]
    ELSE <<[datetime |-> unit.creation_time, submitter |-> "system",
            created |-> TRUE, entries |-> <<>>]>> \o groups

\* lines 531-611: context['entries_group']
timeline(unit) ==
    Reverse(mark_created(entry_groups(timeline_rows(unit)), unit))

\* the posted forms: a target and a state, valid or not
SubmitPOSTs ==
    [target_f : {<<>>, <<"b">>}, state : {"UNTRANSLATED", "TRANSLATED"},
     valid : BOOLEAN]

\* worker w takes a submit request: lines 815-831
SubmitBegin(w) ==
    /\ frame[w] = NoCall
    /\ \E POST \in SubmitPOSTs :
        frame' = [frame EXCEPT ![w] = submit_begin(w, POST, units[1], now)]
    /\ UNCHANGED <<db, request, units_qs, step_queryset, response, client,
                   signals, now>>

\* lines 833-847: sub.save() of the next updated field
SubmitSaveSubmission(w) ==
    /\ frame[w].pc = "sub.save"
    /\ LET call == frame[w]
           i == Cardinality(call.saved) + 1
           sub == Submission(call, next_id(submissions), call.form.updated_fields[i], now)
       IN  /\ submissions' = submissions \cup {sub}
           /\ frame' = [frame EXCEPT ![w] =
                [call EXCEPT !.saved = @ \cup {sub.id},
                             !.trace = Append(@, "sub.save"),
                             !.pc = submit_then("sub.save",
                                        i < Len(call.form.updated_fields))]]
    /\ UNCHANGED <<units, vfolders, suggestions, qualitychecks, request,
                   units_qs, step_queryset, response, client, signals, now>>

\* lines 852-859: the submitted and reviewed attributes of the instance
SubmitSetAttributes(w) ==
    /\ frame[w].pc = "attributes"
    /\ frame' = [frame EXCEPT ![w] =
            [frame[w] EXCEPT !.form.instance = submit_attributes(frame[w]),
                             !.trace = Append(@, "attributes"),
                             !.pc = submit_then("attributes", FALSE)]]
    /\ UNCHANGED <<db, request, units_qs, step_queryset, response, client,
                   signals, now>>

\* line 861: form.save() writes the instance to the unit's row
SubmitSave(w) ==
    /\ frame[w].pc = "form.save"
    /\ units' = [units EXCEPT ![frame[w].unit.id] = frame[w].form.instance]
    /\ frame' = [frame EXCEPT ![w] =
            [frame[w] EXCEPT !.trace = Append(@, "form.save"),
                             !.pc = submit_then("form.save", FALSE)]]
    /\ UNCHANGED <<vfolders, suggestions, submissions, qualitychecks, request,
                   units_qs, step_queryset, response, client, signals, now>>

\* lines 862-866: translation_submitted.send(...)
SubmitSignal(w) ==
    /\ frame[w].pc = "translation_submitted.send"
    /\ signals' = Append(signals, [unit |-> frame[w].unit.id,
                                   profile |-> frame[w].profile])
    /\ frame' = [frame EXCEPT ![w] =
            [frame[w] EXCEPT !.trace = Append(@, "translation_submitted.send"),
                             !.pc = submit_then("translation_submitted.send", FALSE)]]
    /\ UNCHANGED <<db, request, units_qs, step_queryset, response, client, now>>

\* lines 868-892: the response of a call that saved
SubmitRespond(w) ==
    /\ frame[w].pc = "HttpResponse"
    /\ frame[w].response = NoResponse
    /\ frame' = [frame EXCEPT ![w].response =
                    [status |-> 200, json |-> {"user_score"}]]
    /\ UNCHANGED <<db, request, units_qs, step_queryset, response, client,
                   signals, now>>

\* one timeline request for the unit
Timeline ==
    /\ Idle
    /\ request' = [view |-> "timeline", uid |-> 1]
    /\ response' = [status |-> 200, entries_group |-> timeline(units[1])]
    /\ UNCHANGED <<db, units_qs, step_queryset, client, calls>>

\* the clock advances
Tick ==
    /\ now < MaxTime
    /\ now' = now + 1
    /\ UNCHANGED <<db, request, units_qs, step_queryset, response, client,
                   frame, signals>>

\* one unit, created at time 1 or of unknown creation time, nothing
\* submitted yet
InitSubmit ==
    /\ units \in {[u \in {1} |-> EditUnit(u, 1, created)] : created \in {0, 1}}
    /\ vfolders = NoFolders
    /\ suggestions = {} /\ submissions = {} /\ qualitychecks = {}
    /\ request = NoRequest /\ units_qs = NoQuery /\ step_queryset = NoQuery
    /\ response = NoResponse /\ client = NoClient
    /\ frame = [w \in Workers |-> NoCall]
    /\ signals = <<>>
    /\ now = 1

NextSubmit ==
    \/ \E w \in Workers : SubmitBegin(w)
    \/ \E w \in Workers : SubmitSaveSubmission(w)
    \/ \E w \in Workers : SubmitSetAttributes(w)
    \/ \E w \in Workers : SubmitSave(w)
    \/ \E w \in Workers : SubmitSignal(w)
    \/ \E w \in Workers : SubmitRespond(w)
    \/ Timeline
    \/ Tick

SpecSubmit == InitSubmit /\ [][NextSubmit]_vars

\* ------------------------------------------------------- comment model
\* unit_comment_form_factory(language)(data, instance=unit): the form takes
\* the posted comment (none posted: the empty comment) into its instance;
\* whether it validates is the form's matter and comes with the request
unit_comment_form(data, unit, valid) ==
    [is_valid |-> valid,
     instance |-> [unit EXCEPT !.translator_comment =
                        IF "translator_comment" \in DOMAIN data
                        THEN data.translator_comment ELSE <<>>]]

\* mutant: form.save() without the check of form.is_valid()
save_comment_unchecked(req, unit, clock) ==
    LET changed == [unit EXCEPT !.commented_by = req.profile, !.commented_on = clock]
        form == unit_comment_form(req.POST, changed, req.valid)
    IN  [unit |-> form.instance,
         response |-> [status |-> 200, json |-> {"comment"}]]

\* lines 663-695: the row of the unit after the call, and the response
save_comment(req, unit, clock) ==
    LET changed == [unit EXCEPT !.commented_by = req.profile, !.commented_on = clock]
        form == unit_comment_form(req.POST, changed, req.valid)
    IN  IF form.is_valid
        THEN [unit |-> form.instance,
              response |-> [status |-> 200, json |-> {"comment"}]]
        ELSE [unit |-> unit,
              response |-> [status |-> 400, json |-> {"msg"}]]

\* lines 639-660
delete_comment(req, unit, clock) ==
    LET changed == [unit EXCEPT !.commented_by = "", !.commented_on = 0]
        form == unit_comment_form(<<>>, changed, req.valid)
    IN  IF form.is_valid
        THEN [unit |-> form.instance, response |-> [status |-> 200, json |-> {}]]
        ELSE [unit |-> unit, response |-> [status |-> 400, json |-> {"msg"}]]

\* django.views.decorators.http.require_http_methods: the methods the view
\* is called for
require_http_methods == {"POST", "DELETE"}

\* lines 628-636: the view behind its decorators; a method that is not
\* allowed is answered 405 without the view being called
comment(req, unit, clock) ==
    IF req.method \notin require_http_methods
    THEN [unit |-> unit, response |-> [status |-> 405, json |-> {}]]
    ELSE IF req.method = "DELETE" THEN delete_comment(req, unit, clock)
    ELSE save_comment(req, unit, clock)

CommentRequests ==
    {[view |-> "comment", uid |-> 1, method |-> m, profile |-> who,
      POST |-> data, valid |-> ok] :
        m \in {"POST", "DELETE", "GET", "PUT"}, who \in Users,
        data \in Opt("translator_comment", {<<>>, <<"c">>, <<"d">>}),
        ok \in BOOLEAN}

\* one request to the comment view
Comment ==
    /\ Idle
    /\ \E req \in CommentRequests :
        LET out == comment(req, units[req.uid], now)
        IN  /\ request' = req
            /\ response' = out.response
            /\ units' = [units EXCEPT ![req.uid] = out.unit]
    /\ UNCHANGED <<vfolders, suggestions, submissions, qualitychecks,
                   units_qs, step_queryset, client, calls>>

\* one unit, without a comment or with the comment u2 left at time 1
InitComment ==
    /\ units \in {[u \in {1} |-> EditUnit(u, 1, 1)],
                  [u \in {1} |-> [EditUnit(u, 1, 1) EXCEPT
                                    !.translator_comment = <<"c">>,
                                    !.commented_by = "u2", !.commented_on = 1]]}
    /\ vfolders = NoFolders
    /\ suggestions = {} /\ submissions = {} /\ qualitychecks = {}
    /\ request = NoRequest /\ units_qs = NoQuery /\ step_queryset = NoQuery
    /\ response = NoResponse /\ client = NoClient
    /\ frame = NoFrames /\ signals = <<>>
    /\ now \in Times

SpecComment == InitComment /\ [][Comment]_vars

\* -------------------------------------------------------- review model
\* accept_suggestion and reject_suggestion over two units and two
\* suggestions
MaxSuggestions == 2     \* suggestion rows of the review model
ReviewUnits == {1, 2}

\* mutant: the suggestion looked up among all suggestions
suggestion_get_any(unit, suggid) == {s \in suggestions : s.id = suggid}

\* unit.suggestion_set.get(id=suggid): the row, or none (ObjectDoesNotExist)
suggestion_set_get(unit, suggid) ==
    {s \in suggestions : s.unit = unit.id /\ s.id = suggid}

\* Unit.reject_suggestion(sugg, translation_project, profile)
unit_reject_suggestion(sugg) ==
    (suggestions \ {sugg}) \cup {[sugg EXCEPT !.state = "rejected"]}
\* Unit.accept_suggestion(suggestion, translation_project, profile): the
\* suggestion is accepted and its target becomes the unit's
unit_accept_suggestion(sugg) ==
    (suggestions \ {sugg}) \cup {[sugg EXCEPT !.state = "accepted"]}
accepted_unit(unit, sugg) ==
    [unit EXCEPT !.target_f = sugg.target_f, !.state = "TRANSLATED"]

\* request.POST.get(key) taken as a condition: a missing and an empty value
\* are false
POST_flag(req, key) == key \in DOMAIN req.POST /\ req.POST[key] # ""

\* lines 942-962: the tables after the call, and the response
reject_suggestion(req, unit, suggid) ==
    IF ~POST_flag(req, "reject")
    THEN [units |-> units, suggestions |-> suggestions,
          response |-> [status |-> 200, json |-> {"udbid", "sugid"}]]
    ELSE IF suggestion_set_get(unit, suggid) = {}
    THEN [units |-> units, suggestions |-> suggestions,
          response |-> [status |-> 404, json |-> {}]]
    ELSE LET sugg == CHOOSE s \in suggestion_set_get(unit, suggid) : TRUE
         IN  [units |-> units, suggestions |-> unit_reject_suggestion(sugg),
              response |-> [status |-> 200,
                            json |-> {"udbid", "sugid", "user_score"}]]

\* lines 965-992
accept_suggestion(req, unit, suggid) ==
    IF ~POST_flag(req, "accept")
    THEN [units |-> units, suggestions |-> suggestions,
          response |-> [status |-> 200, json |-> {"udbid", "sugid"}]]
    ELSE IF suggestion_set_get(unit, suggid) = {}
    THEN [units |-> units, suggestions |-> suggestions,
          response |-> [status |-> 404, json |-> {}]]
    ELSE LET sugg == CHOOSE s \in suggestion_set_get(unit, suggid) : TRUE
         IN  [units |-> [units EXCEPT ![unit.id] = accepted_unit(unit, sugg)],
              suggestions |-> unit_accept_suggestion(sugg),
              response |-> [status |-> 200,
                            json |-> {"udbid", "sugid", "user_score",
                                      "newtargets", "newdiffs"}]]

ReviewRequests ==
    {[view |-> v, uid |-> uid, suggid |-> suggid, profile |-> "u1", POST |-> data] :
        v \in {"accept_suggestion", "reject_suggestion"},
        uid \in ReviewUnits, suggid \in 1..(MaxSuggestions + 1),
        data \in Opt("accept", {"", "1"}) \cup Opt("reject", {"", "1"})}

\* one accept_suggestion request
AcceptSuggestion ==
    /\ Idle
    /\ \E req \in ReviewRequests :
        /\ req.view = "accept_suggestion"
        /\ LET out == accept_suggestion(req, units[req.uid], req.suggid)
           IN  /\ request' = req
               /\ response' = out.response
               /\ units' = out.units
               /\ suggestions' = out.suggestions
    /\ UNCHANGED <<vfolders, submissions, qualitychecks, units_qs,
                   step_queryset, client, calls>>

\* one reject_suggestion request
RejectSuggestion ==
    /\ Idle
    /\ \E req \in ReviewRequests :
        /\ req.view = "reject_suggestion"
        /\ LET out == reject_suggestion(req, units[req.uid], req.suggid)
           IN  /\ request' = req
               /\ response' = out.response
               /\ units' = out.units
               /\ suggestions' = out.suggestions
    /\ UNCHANGED <<vfolders, submissions, qualitychecks, units_qs,
                   step_queryset, client, calls>>

\* suggestions 1..MaxSuggestions, each of either unit and in any state
InitReview ==
    /\ units = [u \in ReviewUnits |-> EditUnit(u, 1, 1)]
    /\ vfolders = NoFolders
    /\ suggestions \in
        {{[id |-> i, unit |-> of[i], state |-> st[i], user |-> "u2",
           target_f |-> <<"s", Numerals[i]>>, creation_time |-> 1] :
            i \in 1..MaxSuggestions} :
          of \in [1..MaxSuggestions -> ReviewUnits],
          st \in [1..MaxSuggestions -> {"pending", "accepted", "rejected"}]}
    /\ submissions = {} /\ qualitychecks = {}
    /\ InitAnswers

NextReview == AcceptSuggestion \/ RejectSuggestion

SpecReview == InitReview /\ [][NextReview]_vars

\* ---------------------------------------------------- add_vfolders model
\* Runs of the add_vfolders command, one after the other, over JSON files of
\* at most MaxItems items. The virtualfolder table is a list of rows, a
\* row's id being its place in the list.
MaxItems == 2       \* items of one JSON file

\* mutant: the name of the item left as the file gives it
item_as_given(item) ==
    [k \in DOMAIN item \ {"files"} |-> item[k]]
    @@ [filter_rules |-> IF "files" \in DOMAIN item THEN item.files ELSE <<>>]

\* lines 59-67: the name lower-cased, 'files' joined into 'filter_rules'
item_prepared(item) ==
    [k \in DOMAIN item \ {"files"} |->
        IF k = "name" THEN Lower(item[k]) ELSE item[k]]
    @@ [filter_rules |-> IF "files" \in DOMAIN item THEN item.files ELSE <<>>]

\* lines 72-75: VirtualFolder.objects.get(name=..., location=...), as the
\* ids of the rows that match
VirtualFolder_get(table, name, location) ==
    {id \in DOMAIN table : table[id].name = name /\ table[id].location = location}

\* VirtualFolder(**vfolder_item): the columns the item does not give take
\* the defaults of the model
VirtualFolder(item) ==
    [name |-> item.name, location |-> item.location,
     filter_rules |-> item.filter_rules,
     priority |-> IF "priority" \in DOMAIN item THEN item.priority ELSE One,
     is_browsable |-> IF "is_browsable" \in DOMAIN item THEN item.is_browsable ELSE TRUE,
     description |-> IF "description" \in DOMAIN item THEN item.description ELSE <<>>]

\* lines 88-119: the existing row with the columns the item changes
vfolder_updated(row, item) ==
    [row EXCEPT
        !.filter_rules = item.filter_rules,
        !.priority = IF "priority" \in DOMAIN item THEN item.priority ELSE @,
        !.is_browsable = IF "is_browsable" \in DOMAIN item THEN item.is_browsable ELSE @,
        !.description = IF "description" \in DOMAIN item THEN item.description ELSE @]

NoCounts == [added |-> 0, updated |-> 0, errored |-> 0, unchanged |-> 0]

\* mutant: the folder that exists is saved whether or not the item changes it
handle_item_saves_found(given, table, counts) ==
    LET item == item_prepared(given)
        found == VirtualFolder_get(table, item.name, item.location)
    IN  IF found = {}
        THEN IF given.valid
             THEN [table |-> Append(table, VirtualFolder(item)),
                   counts |-> [counts EXCEPT !.added = @ + 1]]
             ELSE [table |-> table, counts |-> [counts EXCEPT !.errored = @ + 1]]
        ELSE LET id == CHOOSE i \in found : TRUE
                 row == vfolder_updated(table[id], item)
             IN  IF given.valid
                 THEN [table |-> [table EXCEPT ![id] = row],
                       counts |-> [counts EXCEPT !.updated = @ + 1]]
                 ELSE [table |-> table, counts |-> [counts EXCEPT !.errored = @ + 1]]

\* lines 58-128, for one item: the table and the counts after it; save()
\* raises ValidationError for an item that does not validate
handle_item(given, table, counts) ==
    LET item == item_prepared(given)
        found == VirtualFolder_get(table, item.name, item.location)
    IN  IF found = {}
        THEN IF given.valid
             THEN [table |-> Append(table, VirtualFolder(item)),
                   counts |-> [counts EXCEPT !.added = @ + 1]]
             ELSE [table |-> table, counts |-> [counts EXCEPT !.errored = @ + 1]]
        ELSE LET id == CHOOSE i \in found : TRUE
                 row == vfolder_updated(table[id], item)
             IN  IF row = table[id]
                 THEN [table |-> table, counts |-> [counts EXCEPT !.unchanged = @ + 1]]
                 ELSE IF given.valid
                 THEN [table |-> [table EXCEPT ![id] = row],
                       counts |-> [counts EXCEPT !.updated = @ + 1]]
                 ELSE [table |-> table, counts |-> [counts EXCEPT !.errored = @ + 1]]

\* lines 54-132: the loop over the items of the file
RECURSIVE handle_items(_, _, _)
handle_items(items, table, counts) ==
    IF items = <<>> THEN [table |-> table, counts |-> counts]
    ELSE LET after == handle_item(Head(items), table, counts)
         IN  handle_items(Tail(items), after.table, after.counts)

\* lines 38-132: a run of the command; without a file name, or with a file
\* that cannot be read as JSON, it ends in CommandError
handle(args, table) ==
    IF args = <<>> \/ ~args[1].json
    THEN [table |-> table, response |-> [exit |-> "CommandError"]]
    ELSE LET out == handle_items(args[1].vfolders, table, NoCounts)
         IN  [table |-> out.table,
              response |-> [exit |-> "done", counts |-> out.counts]]

\* the items of the files: a name in either case, a location, with or
\* without files, with or without the optional columns, valid or not
VfolderItems ==
    {[name |-> n, location |-> l, valid |-> ok] @@ files @@ columns :
        n \in {<<"a">>, <<"A">>}, l \in {"/p/", "/q/"}, ok \in BOOLEAN,
        files \in Opt("files", {<<"f">>}),
        columns \in {<<>>, [priority |-> 3, is_browsable |-> FALSE,
                            description |-> <<"d">>]}}
VfolderFiles ==
    {[json |-> FALSE]}
    \cup {[json |-> TRUE, vfolders |-> items] :
            items \in UNION {[1..n -> VfolderItems] : n \in 0..MaxItems}}

\* one run of the command
AddVfolders ==
    /\ \E args \in {<<>>} \cup {<<file>> : file \in VfolderFiles} :
        LET out == handle(args, vfolders)
        IN  /\ vfolders' = out.table
            /\ response' = out.response
            /\ request' = [view |-> "add_vfolders", given |-> Len(args)]
    /\ UNCHANGED <<units, suggestions, submissions, qualitychecks, units_qs,
                   step_queryset, client, calls>>

\* the table before the first run: no virtual folder
InitVfolders ==
    /\ units = <<>>
    /\ vfolders = <<>>
    /\ suggestions = {} /\ submissions = {} /\ qualitychecks = {}
    /\ InitAnswers

SpecVfolders == InitVfolders /\ [][AddVfolders]_vars

\* ------------------------------------------------------- adapter model
\* PootleAccountAdapter.ajax_response. None is a value of its own; a form
\* object is true as a condition, a string is true when it is not empty.
None == [is |-> "None"]
Str(s) == [is |-> "str", value |-> s]
Form(errors) == [is |-> "form", _errors |-> errors]
Truthy(v) == v # None /\ (v.is = "str" => v.value # <<>>)
form_is_valid(form) == form._errors = {}

\* lines 24-37: the JsonResponse, or the error of reading the local
\* variable status that no branch has bound
ajax_response(req, resp, redirect_to, form) ==
    LET location == IF Truthy(redirect_to)
                    THEN [location |-> redirect_to.value] ELSE <<>>
        errors == IF Truthy(form) /\ ~form_is_valid(form)
                  THEN [errors |-> form._errors] ELSE <<>>
        status == IF Truthy(form)
                  THEN {IF form_is_valid(form) THEN 200 ELSE 400}
                  ELSE IF Truthy(redirect_to) THEN {200} ELSE {}
    IN  IF status = {}
        THEN [status |-> 500, raised |-> "UnboundLocalError"]
        ELSE [status |-> CHOOSE x \in status : TRUE, json |-> location @@ errors]

AdapterCalls ==
    {[view |-> "ajax_response", response |-> resp, redirect_to |-> to, form |-> form] :
        resp \in {200, 302, 400},
        to \in {None, Str(<<>>), Str(<<"/">>), Str(<<"/", "a">>)},
        form \in {None} \cup {Form(errors) : errors \in SUBSET {"login", "password", "email"}}}

\* one call of the adapter
AjaxResponse ==
    /\ Idle
    /\ \E call \in AdapterCalls :
        /\ request' = call
        /\ response' = ajax_response(call, call.response, call.redirect_to, call.form)
    /\ UNCHANGED <<db, units_qs, step_queryset, client, calls>>

InitAdapter ==
    /\ units = <<>>
    /\ vfolders = <<>>
    /\ suggestions = {} /\ submissions = {} /\ qualitychecks = {}
    /\ InitAnswers

SpecAdapter == InitAdapter /\ [][AjaxResponse]_vars

\* ----------------------------------------------------------- sort model
\* get_step_query for the filters of the 'suggestions' and 'submissions'
\* sort domains, over up to MaxRows suggestion or submission rows: rows
\* that match the filter, rows of another user, rows of another state or
\* type
MaxRows == 3        \* suggestion / submission rows of the sort model

AtMost(S, n) == {T \in SUBSET S : Cardinality(T) <= n}

SortSuggestionRows ==
    {[unit |-> u, state |-> v[1], user |-> v[2], creation_time |-> t] :
        u \in StepIds, t \in Times,
        v \in {<<"pending", "u1">>, <<"pending", "u2">>, <<"accepted", "u1">>}}
SortSubmissionRows ==
    {[unit |-> u, submitter |-> v[2], type |-> v[1], creation_time |-> t] :
        u \in StepIds, t \in Times,
        v \in {<<"NORMAL", "u1">>, <<"NORMAL", "u2">>, <<"SUGG_ADD", "u1">>}}

InitSort ==
    /\ InitAnswers
    /\ units = [u \in StepIds |-> StepUnit(u)]
    /\ vfolders = NoFolders
    /\ qualitychecks = {}
    /\ \/ /\ suggestions \in AtMost(SortSuggestionRows, MaxRows) \ {{}}
          /\ submissions = {}
       \/ /\ submissions \in AtMost(SortSubmissionRows, MaxRows) \ {{}}
          /\ suggestions = {}

SortGETs ==
    {("path" :> <<"p">>) @@ filter @@ user @@ sort :
        filter \in Given("filter", IF suggestions # {}
                                   THEN {"my-suggestions", "user-suggestions"}
                                   ELSE {"my-submissions", "user-submissions"}),
        user \in Opt("user", {"u2", "nobody"}),
        sort \in Opt("sort", {"oldest", "newest", "priority"})}

\* one call of get_step_query with a filter of a sort domain
StepQuerySorted ==
    /\ Idle
    /\ \E GET \in SortGETs :
         LET req == [view |-> "get_step_query", profile |-> "u1", GET |-> GET]
             qs == get_for_path(GET.path, req.profile)
         IN  /\ request' = req
             /\ units_qs' = qs
             /\ step_queryset' = get_step_query(GET, req.profile, qs)
             /\ UNCHANGED <<db, response, client, calls>>

SpecSort == InitSort /\ [][StepQuerySorted]_vars

\* -------------------------------------------------- filter + search model
\* get_step_query for requests that carry a filter and a search, over units
\* that differ in state, submission time and target text
ComposeUnit(u, state, on, target) ==
    [StepUnit(u) EXCEPT !.state = state, !.submitted_on = on,
                        !.submitted_by = IF on = 0 THEN "" ELSE "u1",
                        !.target_f = target]

InitCompose ==
    /\ InitAnswers
    /\ units \in {[u \in StepIds |-> ComposeUnit(u, st[u], on[u], text[u])] :
                    st \in [StepIds -> {"TRANSLATED", "FUZZY"}],
                    on \in [StepIds -> 0..MaxTime],
                    text \in [StepIds -> {<<>>, <<"b">>}]}
    /\ vfolders = NoFolders
    /\ suggestions = {} /\ submissions = {} /\ qualitychecks = {}

ComposeGETs ==
    {("path" :> <<"p">>) @@ filter @@ since @@ month @@ search @@ sfields @@ soptions :
        filter \in Given("filter", {"all", "translated", "fuzzy"}),
        since \in Opt("modified-since", {Numerals[1], "x"}),
        month \in Opt("month", {Numerals[2]}),
        search \in Given("search", {<<"B">>, <<>>}),
        sfields \in Given("sfields", {<<"target">>, <<"source">>,
                                      <<"target", "no-such-field">>}),
        soptions \in Opt("soptions", {<<"exact">>})}

\* one call of get_step_query with a filter and a search
StepQueryComposed ==
    /\ Idle
    /\ \E GET \in ComposeGETs :
         LET req == [view |-> "get_step_query", profile |-> "u1", GET |-> GET]
             qs == get_for_path(GET.path, req.profile)
         IN  /\ request' = req
             /\ units_qs' = qs
             /\ step_queryset' = get_step_query(GET, req.profile, qs)
             /\ UNCHANGED <<db, response, client, calls>>

SpecCompose == InitCompose /\ [][StepQueryComposed]_vars

\* ------------------------------------------------ add_vfolders run twice
\* The command run with a file and then run again with the same file, over
\* a table that holds no folder or one folder of an earlier import.
EarlierFolders ==
    {VirtualFolder(item_prepared(item)) :
        item \in {i \in VfolderItems : i.name = <<"a">> /\ i.location = "/p/"}}

\* the first run, of any file
AddVfoldersFirst ==
    /\ request = NoRequest
    /\ \E args \in {<<>>} \cup {<<file>> : file \in VfolderFiles} :
        LET out == handle(args, vfolders)
        IN  /\ vfolders' = out.table
            /\ response' = out.response
            /\ request' = [view |-> "add_vfolders", args |-> args, run |-> 1]
    /\ UNCHANGED <<units, suggestions, submissions, qualitychecks, units_qs,
                   step_queryset, client, calls>>

\* the second run, of the file of the first; the response keeps the counts
\* of the first run and the table the second run started from
AddVfoldersAgain ==
    /\ request.view = "add_vfolders"
    /\ request.run = 1
    /\ LET out == handle(request.args, vfolders)
       IN  /\ vfolders' = out.table
           /\ response' = out.response @@ [first |-> response, before |-> vfolders]
           /\ request' = [request EXCEPT !.run = 2]
    /\ UNCHANGED <<units, suggestions, submissions, qualitychecks, units_qs,
                   step_queryset, client, calls>>

InitRerun ==
    /\ units = <<>>
    /\ vfolders \in {<<>>} \cup {<<row>> : row \in EarlierFolders}
    /\ suggestions = {} /\ submissions = {} /\ qualitychecks = {}
    /\ InitAnswers

NextRerun == AddVfoldersFirst \/ AddVfoldersAgain

SpecRerun == InitRerun /\ [][NextRerun]_vars

\* ============================================================== claims

C3_FoldersOf(u) == {v \in DOMAIN vfolders : u \in vfolders[v].units}
C3_Rank(u) ==
    IF C3_FoldersOf(u) = {} THEN One
    ELSE CHOOSE p \in {vfolders[v].priority : v \in C3_FoldersOf(u)} :
            \A v \in C3_FoldersOf(u) : vfolders[v].priority <= p
C3_UnitsDomainByPriority ==
    /\ request.view = "get_step_query"
    /\ "filter" \in DOMAIN request.GET
    /\ request.GET.filter \notin {"", "my-suggestions", "user-suggestions",
                                  "my-submissions", "user-submissions"}
    /\ "sort" \in DOMAIN request.GET
    /\ request.GET.sort = "priority"
C3_PriorityOrder ==
    C3_UnitsDomainByPriority =>
        \A rows \in Evaluate(step_queryset) :
            \A i \in 1..Len(rows) : \A j \in (i + 1)..Len(rows) :
                C3_Rank(rows[i]) >= C3_Rank(rows[j])

\* two rows against their ids' order: a unit that no folder holds before a
\* unit of the folder of priority 0.5
C3_Witness ==
    /\ C3_UnitsDomainByPriority
    /\ \E rows \in Evaluate(step_queryset) :
        /\ Len(rows) >= 2
        /\ rows[1] > rows[2]
        /\ C3_FoldersOf(rows[1]) = {}
        /\ C3_FoldersOf(rows[2]) # {}
        /\ C3_Rank(rows[1]) > C3_Rank(rows[2])

\* C2: a non-exact search returns exactly the units given of which one
\* selected field holds, whatever the case, every whitespace-separated word
\* of the search text; 'notes' selects the translator comment and the
\* developer comment, each a field of its own. Words spread over several
\* fields do not match, and no selected field gives no unit.
C2_Columns(sfields) ==
    (IF "source" \in sfields THEN {"source_f"} ELSE {})
    \cup (IF "target" \in sfields THEN {"target_f"} ELSE {})
    \cup (IF "notes" \in sfields THEN {"translator_comment", "developer_comment"} ELSE {})
    \cup (IF "locations" \in sfields THEN {"locations"} ELSE {})
C2_Words(text) == Range(Split(text))
C2_NonExactSearch ==
    /\ request.view = "get_search_step_query"
    /\ "exact" \notin request.form.soptions
C2_SearchMatches ==
    C2_NonExactSearch =>
        /\ step_queryset.ids =
            {u \in units_qs.ids :
                \E column \in C2_Columns(request.form.sfields) :
                    \A word \in C2_Words(request.form.search) :
                        Contains(Lower(units[u][column]), Lower(word))}
        /\ request.form.sfields = {} => step_queryset.ids = {}

\* a search for two words, and a unit given that holds each word in a
\* selected field but no field holds both: it is not returned
C2_Witness ==
    /\ C2_NonExactSearch
    /\ Cardinality(C2_Words(request.form.search)) = 2
    /\ \E u \in units_qs.ids \ step_queryset.ids :
        \A word \in C2_Words(request.form.search) :
            \E column \in C2_Columns(request.form.sfields) :
                Contains(Lower(units[u][column]), Lower(word))

\* ------------------------------------------------- get_units responses
\* the ids of the units of a response, its unit groups one after the other
RECURSIVE ReturnedIds(_)
ReturnedIds(groups) ==
    IF groups = <<>> THEN <<>>
    ELSE [i \in 1..Len(Head(groups).units) |-> Head(groups).units[i].id]
         \o ReturnedIds(Tail(groups))

AnsweredUnits == request.view = "get_units" /\ response.status = 200
IsInitial(req) == "initial" \in DOMAIN req.GET /\ req.GET.initial # ""
UidsOf(req) == ParseUids(IF "uids" \in DOMAIN req.GET THEN req.GET.uids ELSE <<>>)
\* 0-based position of id in list
Position(list, id) == (CHOOSE k \in 1..Len(list) : list[k] = id) - 1

\* C4: an initial request with exactly one uid, at position i of the sorted
\* ids L of the filtered result, is answered with the units of
\* L[max(i-c,0) .. min(i+c+1,len(L))), c the chunk size: the uid is among
\* them, at most c ids before it and c after it, none outside L.
C4_SingleUid ==
    /\ AnsweredUnits
    /\ IsInitial(request)
    /\ Len(UidsOf(request)) = 1
C4_WindowAroundUid ==
    C4_SingleUid =>
        LET L == response.uIds
            uid == UidsOf(request)[1]
            i == Position(L, uid)
            c == request.limit
            got == ReturnedIds(response.unitGroups)
        IN  /\ Range(got) = {L[k + 1] : k \in {n \in 0..(Len(L) - 1) : n >= i - c /\ n <= i + c}}
            /\ Len(got) = Cardinality(Range(got))
            /\ uid \in Range(got)
            /\ Cardinality({x \in Range(got) : Position(L, x) < i}) <= c
            /\ Cardinality({x \in Range(got) : Position(L, x) > i}) <= c
            /\ Range(got) \subseteq Range(L)

\* the uid is the first of three ids and the chunk size is 1: the window
\* begins at the uid and leaves the third id out
C4_Witness ==
    /\ C4_SingleUid
    /\ Len(response.uIds) = 3
    /\ request.limit = 1
    /\ Position(response.uIds, UidsOf(request)[1]) = 0
    /\ Len(ReturnedIds(response.unitGroups)) = 2

\* C5: for the same filter, sort and search, the units get_units returns
\* come in the order their ids have in the uIds of the initial request, on
\* the initial page load and on a later fetch by uids.
C5_Query(req) == [k \in DOMAIN req.GET \ {"initial", "uids", "count"} |-> req.GET[k]]
C5_OrderOfInitialUIds ==
    (/\ AnsweredUnits
     /\ client.uIds # <<>>
     /\ C5_Query(request) = C5_Query(client.request)) =>
        LET got == ReturnedIds(response.unitGroups)
        IN  \A i \in 1..Len(got) : \A j \in (i + 1)..Len(got) :
                Position(client.uIds, got[i]) < Position(client.uIds, got[j])

C7_ChunkSize(req) ==
    IF "count" \in DOMAIN req.GET THEN NumeralValue(req.GET.count) ELSE req.limit
C7_CountIsChunkSize ==
    (/\ request.view = "get_units"
     /\ "path" \in DOMAIN request.GET
     /\ IsInitial(request)) =>
        LET c == C7_ChunkSize(request)
            uids == UidsOf(request)
        IN  IF Len(uids) = 1
            THEN uids[1] \in step_queryset.ids =>
                    /\ response.status = 200
                    /\ LET L == response.uIds
                           i == Position(L, uids[1])
                       IN  Range(ReturnedIds(response.unitGroups)) =
                             {L[k + 1] : k \in {n \in 0..(Len(L) - 1) :
                                                  n >= i - c /\ n <= i + c}}
            ELSE /\ response.status = 200
                 /\ \/ step_queryset.ids = {} /\ response.unitGroups = <<>>
                    \/ /\ step_queryset.ids # {}
                       /\ Range(ReturnedIds(response.unitGroups)) =
                            {response.uIds[k] :
                                k \in {n \in 1..Len(response.uIds) : n <= 2 * c}}

\* C8 as claimed: with 'initial' given the response holds 'uIds', the sorted
\* ids of the whole filtered result, each once.
C8_SortedIds(list) ==
    /\ Range(list) = step_queryset.ids
    /\ Len(list) = Cardinality(step_queryset.ids)
    /\ \A i \in 1..Len(list) : \A j \in (i + 1)..Len(list) :
            ~RowBefore(step_queryset, list[j], list[i])
C9_NoPath == request.view = "get_units" /\ "path" \notin DOMAIN request.GET
C9_MissingPathIs400 ==
    C9_NoPath =>
        /\ response.status = 400
        /\ response.msg = "Arguments missing."
        /\ DOMAIN response = {"status", "msg"}
        /\ units_qs = NoQuery
        /\ step_queryset = NoQuery

\* an initial request for a unit with a filter and no path
C9_Witness ==
    /\ C9_NoPath
    /\ IsInitial(request)
    /\ "filter" \in DOMAIN request.GET
    /\ UidsOf(request) = <<1>>
    /\ response.status = 400

\* ------------------------------------------------------- context units
AnsweredContext == request.view = "get_more_context" /\ response.status = 200
\* the units of the store of unit u between u and v, by index
C10_Between(u, v) ==
    {w \in DOMAIN units :
        /\ units[w].store = units[u].store
        /\ \/ units[v].index < units[w].index /\ units[w].index < units[u].index
           \/ units[u].index < units[w].index /\ units[w].index < units[v].index}
C10_Ids(list) == [i \in 1..Len(list) |-> list[i].id]

Submitting(w) == frame[w] # NoCall /\ frame[w].view = "submit"
C11_SavedBy(w) == {s \in submissions : s.id \in frame[w].saved}
C11_TargetUpdated(call) ==
    \E i \in 1..Len(call.form.updated_fields) :
        call.form.updated_fields[i].field = "target"
\* the records of a call, as far as it got: its first fields, one record each,
\* all of the call's current_time
C11_Records ==
    \A w \in Workers : Submitting(w) =>
        LET call == frame[w]
            fields == call.form.updated_fields
            done == IF call.pc = "sub.save" THEN Cardinality(call.saved)
                    ELSE Len(fields)
        IN  /\ \A s \in C11_SavedBy(w) : s.creation_time = call.current_time
            /\ Cardinality(C11_SavedBy(w)) = IF call.form.is_valid THEN done ELSE 0
            /\ call.form.is_valid =>
                \A i \in 1..done :
                    Cardinality({s \in C11_SavedBy(w) : s.field = fields[i].field}) = 1
\* form.save() of a call that updates the target stores current_time as
\* the unit's submitted_on
C11_SubmittedOn ==
    \A w \in Workers :
        (Submitting(w) /\ frame[w].pc = "form.save" /\ frame'[w].pc # "form.save"
         /\ C11_TargetUpdated(frame[w]))
        => units'[frame[w].unit.id].submitted_on = frame[w].current_time

\* C11: all Submission records created by one submit call carry the same
\* creation_time (the call's current_time), there is one record per updated
\* field, and when the target is among the updated fields the unit is saved
\* with submitted_on set to that same time.
C11_OneTimePerCall == [](C11_Records) /\ [][C11_SubmittedOn]_vars

\* a call that saved two records and its unit while the clock advanced
C11_Witness ==
    \E w \in Workers :
        /\ Submitting(w)
        /\ frame[w].pc = "HttpResponse"
        /\ Cardinality(C11_SavedBy(w)) = 2
        /\ now > frame[w].current_time
        /\ units[1].submitted_on = frame[w].current_time
        /\ \E s \in submissions : s.id \notin frame[w].saved

C12_Order(call) ==
    [i \in 1..Len(call.form.updated_fields) |-> "sub.save"]
    \o <<"attributes", "form.save", "translation_submitted.send">>
C12_Column(field) == IF field = "target" THEN "target_f" ELSE "state"

\* C12: within one submit call every Submission record is saved first, with
\* the old values of the unit as it was before the call saved it, then the
\* submitted/reviewed attributes are set, then the unit is saved, then the
\* translation_submitted signal is sent; no signal is sent for a unit that
\* was not saved.
C12_SubmitOrder ==
    /\ \A w \in Workers : Submitting(w) =>
        LET call == frame[w]
            order == C12_Order(call)
        IN  /\ Len(call.trace) <= Len(order)
            /\ call.trace = SubSeq(order, 1, Len(call.trace))
            /\ call.form.updated_fields = <<>> \/ ~call.form.is_valid
                    => call.trace = <<>>
            /\ \A s \in C11_SavedBy(w) :
                    s.old_value = call.unit[C12_Column(s.field)]
    /\ Len(signals) =
        Cardinality({w \in Workers :
            /\ Submitting(w)
            /\ \E i \in 1..Len(frame[w].trace) :
                    frame[w].trace[i] = "translation_submitted.send"
            /\ \E i \in 1..Len(frame[w].trace) : frame[w].trace[i] = "form.save"})

\* both calls ran to their signal, one of them saving two records
C12_Witness ==
    /\ Len(signals) = 2
    /\ \E w \in Workers :
        /\ Submitting(w)
        /\ Len(frame[w].form.updated_fields) = 2
        /\ frame[w].trace = C12_Order(frame[w])

\* ------------------------------------------------------ comment (C13)
C13_CommentColumns(unit) ==
    <<unit.translator_comment, unit.commented_by, unit.commented_on>>

\* C13: for save_comment (POST) and delete_comment (DELETE), when the form
\* validates the unit is saved (with the posted comment, its author and the
\* time, resp. with all three blanked) and the status is 200; when it does
\* not validate the status is 400 with a 'msg' key and the stored comment,
\* commented_by and commented_on are unchanged; any other method changes
\* nothing.
C13_CommentOutcome ==
    [][request'.view = "comment" =>
        LET req == request'
            posted == IF "translator_comment" \in DOMAIN req.POST
                      THEN req.POST.translator_comment ELSE <<>>
        IN  /\ req.method \notin {"POST", "DELETE"} => UNCHANGED db
            /\ req.method \in {"POST", "DELETE"} /\ ~req.valid =>
                /\ response'.status = 400
                /\ "msg" \in response'.json
                /\ UNCHANGED db
            /\ req.method = "POST" /\ req.valid =>
                /\ response'.status = 200
                /\ C13_CommentColumns(units'[req.uid]) = <<posted, req.profile, now>>
            /\ req.method = "DELETE" /\ req.valid =>
                /\ response'.status = 200
                /\ C13_CommentColumns(units'[req.uid]) = <<<<>>, "", 0>>]_vars

\* a comment form that did not validate, on a unit that keeps its comment
C13_Witness ==
    /\ request.view = "comment"
    /\ request.method = "POST"
    /\ ~request.valid
    /\ request.profile = "u1"
    /\ response.status = 400
    /\ C13_CommentColumns(units[1]) = <<<<"c">>, "u2", 1>>

\* ------------------------------------------------------- review (C14)
C14_Reviewing(req) == req.view \in {"accept_suggestion", "reject_suggestion"}
C14_Flag(req) ==
    LET key == IF req.view = "accept_suggestion" THEN "accept" ELSE "reject"
    IN  key \in DOMAIN req.POST /\ req.POST[key] # ""
C14_OwnSuggestion(req) ==
    \E s \in suggestions : s.id = req.suggid /\ s.unit = req.uid

\* C14: accept_suggestion and reject_suggestion change a suggestion only
\* when the POST carries a truthy 'accept' (resp. 'reject') and the
\* suggestion id belongs to the unit of the request; without the flag nothing
\* changes and the response holds only udbid and sugid; with the flag and an
\* id that is no suggestion of that unit the request ends in HTTP 404 and no
\* suggestion or unit is changed.
C14_ReviewGuard ==
    [][C14_Reviewing(request') =>
        LET req == request'
        IN  /\ ~C14_Flag(req) =>
                /\ UNCHANGED db
                /\ response' = [status |-> 200, json |-> {"udbid", "sugid"}]
            /\ C14_Flag(req) /\ ~C14_OwnSuggestion(req) =>
                /\ UNCHANGED db
                /\ response'.status = 404
            /\ suggestions' # suggestions =>
                /\ C14_Flag(req) /\ C14_OwnSuggestion(req)
                /\ \A s \in suggestions : s.id # req.suggid => s \in suggestions']_vars

\* a flagged request naming the suggestion of the other unit
C14_Witness ==
    /\ request.view = "accept_suggestion"
    /\ "accept" \in DOMAIN request.POST /\ request.POST.accept = "1"
    /\ \E s \in suggestions :
            s.id = request.suggid /\ s.unit # request.uid /\ s.state = "pending"
    /\ response.status = 404

\* -------------------------------------------------- add_vfolders (C15)
C15_Key(row) == <<Lower(row.name), row.location>>
C15_Unique ==
    \A i \in DOMAIN vfolders : \A j \in DOMAIN vfolders :
        C15_Key(vfolders[i]) = C15_Key(vfolders[j]) => i = j
C15_CreatesOnlyNew ==
    /\ \A id \in DOMAIN vfolders :
        id \in DOMAIN vfolders' /\ C15_Key(vfolders'[id]) = C15_Key(vfolders[id])
    /\ \A id \in DOMAIN vfolders' \ DOMAIN vfolders :
        \A old \in DOMAIN vfolders : C15_Key(vfolders[old]) # C15_Key(vfolders'[id])

\* C15: a run of add_vfolders creates a virtual folder only when no folder
\* with the same (lower-cased name, location) exists and otherwise updates
\* the existing one: whatever the runs and their files, no two virtual
\* folders have the same lower-cased name and location.
C15_NoSecondFolder == [](C15_Unique) /\ [][C15_CreatesOnlyNew]_vars

\* a run that updated the folder an earlier run created
C15_Witness ==
    /\ request.view = "add_vfolders"
    /\ response.exit = "done"
    /\ response.counts.updated = 1
    /\ response.counts.added = 1
    /\ Len(vfolders) = 2
    /\ \E id \in DOMAIN vfolders : vfolders[id].priority = 3

\* ------------------------------------------------------ adapter (C16)
\* C16: ajax_response always returns a JSON response, of status 400 exactly
\* when a form is given and is invalid and 200 otherwise, without an 'html'
\* key, with the form errors under 'errors' (never 'form_errors') and only
\* for an invalid form, and with 'location' exactly when redirect_to is
\* given, for every combination of redirect_to and form, neither being given
\* included.
C16_AlwaysJson ==
    request.view = "ajax_response" =>
        LET invalid == request.form # None /\ request.form._errors # {}
        IN  /\ "raised" \notin DOMAIN response
            /\ response.status = IF invalid THEN 400 ELSE 200
            /\ "html" \notin DOMAIN response.json
            /\ "form_errors" \notin DOMAIN response.json
            /\ "errors" \in DOMAIN response.json <=> invalid
            /\ "location" \in DOMAIN response.json <=> request.redirect_to # None

\* the part of C16 that holds: whenever a form is given, or a redirect_to
\* that is not empty, the response is as C16 says
C16_JsonWhenGiven ==
    (request.view = "ajax_response"
     /\ (request.form # None \/ Truthy(request.redirect_to))) =>
        LET invalid == request.form # None /\ request.form._errors # {}
        IN  /\ "raised" \notin DOMAIN response
            /\ response.status = IF invalid THEN 400 ELSE 200
            /\ DOMAIN response.json \subseteq {"location", "errors"}
            /\ "errors" \in DOMAIN response.json <=> invalid
            /\ "location" \in DOMAIN response.json <=> Truthy(request.redirect_to)

\* ----------------------------------------------------- timeline (C17)
C17_Answered == request.view = "timeline" /\ response.status = 200
C17_Created(groups) == {i \in 1..Len(groups) : groups[i].created}

\* C17: the timeline view returns the entry groups of a unit newest first,
\* exactly one entry group is marked 'created', and it is the last of the
\* list.
C17_NewestFirst ==
    C17_Answered =>
        LET groups == response.entries_group
        IN  /\ \A i \in 1..Len(groups) : \A j \in 1..Len(groups) :
                i < j => groups[i].datetime >= groups[j].datetime
            /\ C17_Created(groups) = {Len(groups)}

\* the part of C17 that holds: exactly one group is marked 'created', the
\* last one
C17_OneCreatedLast ==
    C17_Answered => C17_Created(response.entries_group) = {Len(response.entries_group)}

\* ------------------------------------------- filter step (C18 - C20)
StepAnswered == request.view = "get_step_query" /\ step_queryset.built
C18_KnownFilters ==
    {"all", "translated", "untranslated", "fuzzy", "incomplete", "suggestions",
     "my-suggestions", "user-suggestions", "user-suggestions-accepted",
     "user-suggestions-rejected", "my-submissions", "user-submissions",
     "my-submissions-overwritten", "user-submissions-overwritten", "checks"}
C18_NoFilter(GET) == "filter" \notin DOMAIN GET \/ GET.filter = ""
C18_Searching(GET) == "search" \in DOMAIN GET /\ "sfields" \in DOMAIN GET
C18_OrderOf(qs) == <<qs.order_by, qs.extra_order_by, qs.sort_by_field>>

\* C18: a 'filter' that is none of the known names, or filter=checks without
\* a 'checks' parameter, yields an empty result; a 'filter' that is present
\* but empty, or absent, leaves the units given and their order as they are
\* (whatever 'sort' asks for).
C18_UnknownOrNoFilter ==
    StepAnswered =>
        LET GET == request.GET
        IN  /\ (~C18_NoFilter(GET)
                /\ (GET.filter \notin C18_KnownFilters
                    \/ (GET.filter = "checks" /\ "checks" \notin DOMAIN GET)))
               => step_queryset.ids = {}
            /\ C18_NoFilter(GET) =>
                /\ C18_OrderOf(step_queryset) = C18_OrderOf(units_qs)
                /\ ~C18_Searching(GET) => step_queryset = units_qs

\* a filter that is not known, asked of a path that holds units
C18_Witness ==
    /\ StepAnswered
    /\ "filter" \in DOMAIN request.GET
    /\ request.GET.filter = "no-such-filter"
    /\ "sort" \in DOMAIN request.GET
    /\ Cardinality(units_qs.ids) = 2
    /\ step_queryset.ids = {}

C19_User(req) ==
    IF "user" \in DOMAIN req.GET /\ req.GET.user \in Users
    THEN req.GET.user ELSE req.profile
\* the creation times of the rows of unit u that the filter matches
C19_Times(u) ==
    IF request.GET.filter \in {"my-suggestions", "user-suggestions"}
    THEN {s.creation_time : s \in {r \in suggestions :
            r.unit = u /\ r.state = "pending" /\ r.user = C19_User(request)}}
    ELSE {s.creation_time : s \in {r \in submissions :
            r.unit = u /\ r.submitter = C19_User(request) /\ r.type \in EDIT_TYPES}}
C19_Latest(u) == CHOOSE t \in C19_Times(u) : \A x \in C19_Times(u) : x <= t
C19_InDomain ==
    /\ StepAnswered
    /\ "filter" \in DOMAIN request.GET
    /\ request.GET.filter \in {"my-suggestions", "user-suggestions",
                               "my-submissions", "user-submissions"}
    /\ "sort" \in DOMAIN request.GET
    /\ request.GET.sort \in {"oldest", "newest"}

C20_Composed ==
    /\ StepAnswered
    /\ "filter" \in DOMAIN request.GET /\ request.GET.filter # ""
    /\ "search" \in DOMAIN request.GET /\ "sfields" \in DOMAIN request.GET
\* the units of the path that pass the filter, modified-since and month
C20_PassFilter(u) ==
    LET GET == request.GET
    IN  /\ u \in units_qs.ids
        /\ CASE GET.filter = "all" -> TRUE
             [] GET.filter = "translated" -> units[u].state = "TRANSLATED"
             [] GET.filter = "fuzzy" -> units[u].state = "FUZZY"
             [] OTHER -> FALSE
        /\ ("modified-since" \in DOMAIN GET /\ IsNumeral(GET["modified-since"]))
                => units[u].submitted_on > NumeralValue(GET["modified-since"])
        /\ "month" \in DOMAIN GET => units[u].submitted_on = NumeralValue(GET.month)
C20_Column(field) == IF field = "source" THEN "source_f" ELSE "target_f"
\* the search of the request matches unit u
C20_Matches(u) ==
    LET GET == request.GET
    IN  \E i \in 1..Len(GET.sfields) :
            IF "soptions" \in DOMAIN GET
            THEN Contains(units[u][C20_Column(GET.sfields[i])], GET.search)
            ELSE \A w \in Range(Split(GET.search)) :
                    IContains(units[u][C20_Column(GET.sfields[i])], w)
C20_ValidSearch ==
    /\ request.GET.search # <<>>
    /\ Range(request.GET.sfields) \subseteq {"source", "target", "notes", "locations"}

\* C20: with a filter and a valid search get_step_query returns exactly the
\* units that pass the filter (modified-since and month included) and match
\* the search; with a search form that is not valid it returns the units
\* that pass the filter.
C20_SearchOfFiltered ==
    C20_Composed =>
        step_queryset.ids =
            IF C20_ValidSearch
            THEN {u \in DOMAIN units : C20_PassFilter(u) /\ C20_Matches(u)}
            ELSE {u \in DOMAIN units : C20_PassFilter(u)}

\* a unit that matches the search and does not pass the filter, next to one
\* that does both
C20_Witness ==
    /\ C20_Composed
    /\ C20_ValidSearch
    /\ "month" \in DOMAIN request.GET
    /\ request.GET.filter = "translated"
    /\ step_queryset.ids = {1}
    /\ C20_Matches(2)
    /\ ~C20_PassFilter(2)

\* ------------------------------------------- get_units: uid not found
\* C21: an initial get_units request with exactly one uid that is not in the
\* filtered result set ends in HTTP 404: the response is the 404 and nothing
\* else, it carries no units and no uIds.
C21_MissingUid ==
    /\ request.view = "get_units"
    /\ "path" \in DOMAIN request.GET
    /\ IsInitial(request)
    /\ Len(UidsOf(request)) = 1
    /\ UidsOf(request)[1] \notin step_queryset.ids
C21_MissingUidIs404 ==
    C21_MissingUid =>
        /\ response.status = 404
        /\ DOMAIN response = {"status"}
        /\ "unitGroups" \notin DOMAIN response
        /\ "uIds" \notin DOMAIN response

\* the uid is a unit of the project that the path leaves out, other units
\* pass the filter, and the request even carries a 'count'
C21_Witness ==
    /\ C21_MissingUid
    /\ UidsOf(request)[1] \in DOMAIN units
    /\ step_queryset.ids # {}
    /\ "count" \in DOMAIN request.GET
    /\ response.status = 404

\* ------------------------------------------------ get_units: by uids
\* C22: a get_units request without 'initial' returns exactly the units
\* whose id is among the valid integer ids of its 'uids' parameter and that
\* are in the filtered result set of the request, each once, and its
\* response has no 'uIds' key; an id that is no integer, and a unit that
\* does not pass the filter, is never returned.
C22_ByUids ==
    /\ request.view = "get_units"
    /\ "path" \in DOMAIN request.GET
    /\ ~IsInitial(request)
C22_Tokens(req) == IF "uids" \in DOMAIN req.GET THEN Range(req.GET.uids) ELSE {}
C22_IntegerIds(req) == {NumeralValue(t) : t \in {x \in C22_Tokens(req) : IsNumeral(x)}}
C22_UnitsOfUids ==
    C22_ByUids =>
        LET got == ReturnedIds(response.unitGroups)
        IN  /\ response.status = 200
            /\ "uIds" \notin DOMAIN response
            /\ Range(got) = C22_IntegerIds(request) \cap step_queryset.ids
            /\ Len(got) = Cardinality(Range(got))

\* 'uids' names two units, one in the filtered result set and one that the
\* path leaves out: only the first is returned
C22_Witness ==
    /\ C22_ByUids
    /\ "initial" \notin DOMAIN request.GET
    /\ Cardinality(C22_IntegerIds(request) \cap DOMAIN units) = 2
    /\ C22_IntegerIds(request) \ step_queryset.ids # {}
    /\ Len(ReturnedIds(response.unitGroups)) = 1

\* ------------------------------------------------ submit: nothing to save
\* C23: a submit call whose form is invalid returns status 400 with a 'msg'
\* key, and a submit call whose form is valid but has no updated fields
\* returns status 200 with the user score; in both cases no Submission
\* record is created, the unit is not saved and the translation_submitted
\* signal is not sent: such a call is at its response without having run a
\* statement that writes, and every step that writes a Submission, the unit
\* or a signal is a step of a call whose form is valid and has updated
\* fields.
C23_Invalid(call) == ~call.POST.valid
C23_Unchanged(call) ==
    /\ call.POST.valid
    /\ call.POST.target_f = call.unit.target_f
    /\ call.POST.state = call.unit.state
C23_Responses ==
    \A w \in Workers :
        (Submitting(w) /\ (C23_Invalid(frame[w]) \/ C23_Unchanged(frame[w]))) =>
            /\ C23_Invalid(frame[w]) =>
                /\ frame[w].response.status = 400
                /\ "msg" \in frame[w].response.json
            /\ C23_Unchanged(frame[w]) =>
                /\ frame[w].response.status = 200
                /\ "user_score" \in frame[w].response.json
            /\ frame[w].saved = {}
            /\ frame[w].trace = <<>>
            /\ frame[w].pc = "HttpResponse"
C23_Writes ==
    (submissions' # submissions \/ units' # units \/ signals' # signals) =>
        \E w \in Workers :
            /\ frame'[w] # frame[w]
            /\ Submitting(w)
            /\ ~C23_Invalid(frame[w])
            /\ ~C23_Unchanged(frame[w])
C23_NothingSaved == [](C23_Responses) /\ [][C23_Writes]_vars

\* one call posted a new target with a form that does not validate and got
\* the 400, the other posted what the unit already holds and got the 200;
\* nothing was written
C23_Witness ==
    /\ Submitting(1) /\ Submitting(2)
    /\ C23_Invalid(frame[1])
    /\ frame[1].POST.target_f # frame[1].unit.target_f
    /\ frame[1].response.status = 400
    /\ C23_Unchanged(frame[2])
    /\ frame[2].response.status = 200
    /\ submissions = {} /\ signals = <<>>

\* ------------------------------------------- add_vfolders: second run
\* a second run of the file, after a first run in which no item errored
C24_SecondRun ==
    /\ request.view = "add_vfolders"
    /\ request.run = 2
    /\ response.exit = "done"
    /\ response.first.counts.errored = 0
C24_Items == request.args[1].vfolders
C24_NothingDone ==
    /\ vfolders = response.before
    /\ response.counts.added = 0
    /\ response.counts.updated = 0
    /\ response.counts.errored = 0
    /\ response.counts.unchanged = Len(C24_Items)

\* C24 as stated: add_vfolders is idempotent: a second run with the same
\* file, after a first run in which no item errored, changes no virtual
\* folder, saves nothing, and reports every item as unchanged (added 0,
\* updated 0, errored 0).
C24_Idempotent == C24_SecondRun => C24_NothingDone

\* no two items of the file name the same folder
C24_ItemKey(item) == <<Lower(item.name), item.location>>
C24_DistinctItems ==
    \A i \in 1..Len(C24_Items) : \A j \in 1..Len(C24_Items) :
        i # j => C24_ItemKey(C24_Items[i]) # C24_ItemKey(C24_Items[j])

\* C24: a second run of add_vfolders with the same file, after a first run
\* in which no item errored, adds no virtual folder and leaves every virtual
\* folder as the first run left it; when no two items of the file have the
\* same lower-cased name and location it also saves nothing and reports
\* every item as unchanged (added 0, updated 0, errored 0).
C24_SecondRunOutcome ==
    C24_SecondRun =>
        /\ response.counts.added = 0
        /\ vfolders = response.before
        /\ C24_DistinctItems => C24_NothingDone

\* two valid items for the same folder with different files, imported into
\* an empty table: the second run saves the folder twice
C24_SavedAgain ==
    /\ C24_SecondRun
    /\ \A i \in 1..Len(C24_Items) : C24_Items[i].valid
    /\ response.first.counts.added = 1
    /\ Len(vfolders) = 1
    /\ response.counts.updated = 2

\* the first run added one folder and updated another, the second run found
\* both items unchanged
C24_Witness ==
    /\ C24_SecondRun
    /\ C24_DistinctItems
    /\ response.first.counts.added = 1
    /\ response.first.counts.updated = 1
    /\ response.counts.unchanged = 2
    /\ Len(vfolders) = 2
====
